---- MODULE Spec2Model ----
(***************************************************************************)
(* Model of the bicycle orchestration kernel: the daemon state machine     *)
(* (daemon/daemon.go) and the message broker it owns.                      *)
(*                                                                         *)
(* The daemon lock d.mu serialises every public operation, so an operation *)
(* that cannot block is one atomic action.  Stop blocks twice while it     *)
(* holds d.mu (broker.Close waits for in-flight publishes, wg.Wait waits   *)
(* for the task goroutines) and is split at those two points.  The         *)
(* background goroutine of ExecuteTask runs outside the lock and is one    *)
(* action per step: executor return, Publish (target set, then one         *)
(* delivery per matched subscriber), and the locked completion step.       *)
(*                                                                         *)
(* Two specifications share the actions.  Spec starts from New() and       *)
(* covers the whole daemon life cycle on a broker without subscribers.     *)
(* TaskSpec starts from a daemon on which AddPlugin("llm") and Start()     *)
(* have succeeded and covers task execution against a broker with a        *)
(* subscriber; FairTaskSpec adds the fairness the Go scheduler gives.      *)
(***************************************************************************)
EXTENDS Integers, Sequences, FiniteSets, TLC

\* ---------------------------------------------------------------- bounds
\* Number of task goroutines that can exist at the same time.
MaxTasks == 2
\* Number of queues (channels) the broker creates for one subscriber id.
MaxGen == 2
\* Length of an input line handed to Router.Route, in pieces.
MaxLine == 4
\* Requirements added to one RequirementChecker.
MaxReqs == 3
\* Publish calls one caller makes one after the other.
MaxMsgs == 3

\* ---------------------------------------------------------------- inputs
\* Plugins that can be handed to AddPlugin, named by Plugin.Name().
Plugins == {"llm", "alt", "off"}
\* Plugins whose Extensions() contain an Executor-typed extension.
ExecutorPlugins == {"llm", "alt"}
\* Plugins with an entry Enabled=false in config.Plugins.
DisabledPlugins == {"off"}
SubIds == {"s1"}
BufSizes == {0, 1}
TopicFilters == {<<"notification">>, <<"chat">>}
\* Callers of Broker.Publish other than the daemon's task goroutines, the
\* subscriber ids, topics and topic filters they use.
PubIds == {"p1"}
BrokerSubIds == {"s1", "s2"}
Topics == {"chat", "alert"}
BrokerFilters == {<< >>, <<"chat", "chat">>, <<"chat", "*">>, <<"alert">>}
AllSubIds == SubIds \cup BrokerSubIds
\* Callers of Broker.Publish that run at the same time, and the durations
\* (in ms) handed to SetPublishTimeout.
LockPubIds == {"p1", "p2"}
AllPubIds == PubIds \cup LockPubIds
DefaultPublishTimeout == 5000
\* config.Daemon.PublishTimeout of the default configuration, in ms.
ConfigPublishTimeout == 5000
\* Queue capacities and filters of the subscribers of a caller that
\* numbers its messages.
FifoBufSizes == {0, 2}
FifoFilters == {<< >>, <<"alert">>}
Timeouts == {50, DefaultPublishTimeout}
\* Input lines are sequences of pieces of text: the command marker, a
\* blank, and two runs of letters.
Pieces == {"/", " ", "status", "x"}
Lines == UNION {[1..n -> Pieces] : n \in 0..MaxLine}
\* plugin.Mode values, and the absence of a "mode" value in the context.
ModeDaemon == "daemon"
ModeInteractive == "interactive"
NoMode == "none"
Modes == {ModeDaemon, ModeInteractive}
\* Command names handed to cmd.Register, in ascending order as Go compares
\* strings, the modes lists they come with and the argument lists handed
\* to Execute.
NameOrder == << <<"plugins">>, <<"status">>, <<"x">> >>
CmdNames == {NameOrder[i] : i \in 1..Len(NameOrder)}
ModeLists == {<< >>, <<ModeInteractive>>, <<ModeDaemon, ModeInteractive>>}
ArgLists == {<< >>, << <<"x">> >>}
\* Plugin instances handed to plugin.Register: two for each name.
PluginInstances == {"llm", "alt"} \X {1, 2}

StateIdle == "idle"
StateWorking == "working"
StateStopped == "stopped"
States == {StateIdle, StateWorking, StateStopped}

\* Task IDs are unique: the task accepted into goroutine slot g has ID g.
NoTask == 0
NoExecutor == "nil"

VARIABLES
    state,          \* d.state
    plugins,        \* keys of d.plugins
    executor,       \* d.executor: the plugin whose executor extension is registered
    currentTask,    \* d.currentTask (task id or nil)
    stopPc,         \* a Stop call holding d.mu: "none", or blocked at "close" / "wait"
    gor,            \* background goroutines spawned by ExecuteTask
    bClosed,        \* broker.closed
    pub,            \* per caller of Broker.Publish: the call in progress or returned
    chanGen,        \* per subscriber id: number of channels made for it
    closedCh,       \* channels closed so far, as <<id, number, closed by>>
    sendOnClosed,   \* a send on a closed channel has happened (panic)
    bLast,          \* the most recent Subscribe, Unsubscribe or Close call from outside
                    \* the daemon and what it did
    subscriptions,  \* broker.subscriptions: id -> [topics, bufSize, ch]
    last,           \* the most recent public daemon call and what it returned
    startHook,      \* per plugin: Start hook invoked "never", "once" or "again"
    started,        \* a Start call has returned nil
    stopReturned,   \* a Stop call that got past the stopped check has returned
    setStateUsed,   \* SetState has been called
    commands,       \* cmd.globalRegistry.commands: name -> [modes, hidden]
    cmdLast,        \* the most recent call into package cmd and what it returned
    pluginRegistry, \* plugin.globalRegistry.plugins: name -> plugin instance
    requirements,   \* rc.requirements: sequence of [name, required]
    chk,            \* the call of rc.Check in progress or returned
    publishTimeout, \* broker.publishTimeout, in ms
    pubSeq,         \* per caller of Publish: the number of its latest call, which
                    \* is the payload of the message
    yielded,        \* per subscriber id: the payload its receive handle yielded
                    \* last (0: nothing yet)
    roomAtStart     \* per caller of Publish: the targets whose queue had a free
                    \* slot when the fan-out of its call began

dvars == <<state, plugins, executor, currentTask, stopPc>>
pvars == <<pub, chanGen, closedCh, sendOnClosed, bLast>>
bvars == <<bClosed, subscriptions, pvars>>
hvars == <<last, startHook, started, stopReturned, setStateUsed>>
rvars == <<requirements, chk>>

\* No call of rc.Check is in progress.
NoCheck ==
    [pc |-> "idle", i |-> 0, errors |-> << >>, warnings |-> << >>,
     ran |-> << >>, failed |-> {}, ret |-> [err |-> "none", list |-> << >>]]
fvars == <<pubSeq, yielded, roomAtStart>>
ovars == <<commands, cmdLast, pluginRegistry, rvars, publishTimeout, fvars>>
vars == <<dvars, gor, bvars, hvars, ovars>>

GorIds == 1..MaxTasks

NoGor == [pc |-> "none", res |-> "none", pubs |-> 0, pubRes |-> "none",
          pending |-> {}, gerr |-> FALSE, ctxDone |-> FALSE]

\* d.mu is held across a blocking point only by Stop.
muFree == stopPc = "none"

\* d.wg: one count per spawned goroutine that has not yet run wg.Done().
wg == Cardinality({g \in GorIds : gor[g].pc # "none"})

\* Holders of broker.mu.RLock: goroutines inside Broker.Publish fan-out.
brokerReaders == {g \in GorIds : gor[g].pc = "deliver"}

\* A call to the broker: the method, the subscriber id it names, the result.
BrokerCall(op, id, ret) == [op |-> op, id |-> id, ret |-> ret]

\* A Publish call that has not started: nothing returned, no target.
NoRet == [kind |-> "none", sub |-> "none"]

NoPub == [pc |-> "idle", topic |-> "none", targets |-> << >>, pending |-> {},
          delivered |-> [s \in AllSubIds |-> 0], room |-> {}, ctxDone |-> FALSE,
          ret |-> NoRet]

\* Holders of broker.mu.RLock among the other callers of Publish: the lock
\* is taken on entry and released by the deferred RUnlock.
pubReaders == {p \in AllPubIds : pub[p].pc \in {"fanout", "done"}}

\* Variant of the write lock: Lock() does not wait for the readers.
WriteLockIgnoresReaders == TRUE

\* broker.mu.Lock() can be taken: no Publish call holds the read lock.
WriteLockFree == brokerReaders = {} /\ pubReaders = {}

\* A writer is queued on broker.mu: Stop is blocked inside broker.Close.
\* sync.RWMutex blocks new readers while a writer waits.
brokerWriterPending == stopPc = "close"

NoHooks == [checked |-> {}, startInvoked |-> {}, reqFailed |-> {}, startFailed |-> {},
            stopInvoked |-> {}, stopFailed |-> {}]

Call(op, ret) == [op |-> op, ret |-> ret, cancel |-> "none", hooks |-> NoHooks]

\* The registry after the init() of package cmd: the built-in commands, of
\* which "status" is the one the input pieces can spell.
Builtins ==
    [n \in {<<"status">>} |-> [modes |-> <<ModeDaemon, ModeInteractive>>, hidden |-> FALSE]]

\* No call into package cmd yet.
NoCmdCall == [op |-> "none"]

Init ==
    /\ state = StateIdle
    /\ plugins = {}
    /\ executor = NoExecutor
    /\ currentTask = NoTask
    /\ stopPc = "none"
    /\ gor = [g \in GorIds |-> NoGor]
    /\ bClosed = FALSE
    /\ subscriptions = [s \in {} |-> 0]
    /\ pub = [p \in AllPubIds |-> NoPub]
    /\ chanGen = [s \in AllSubIds |-> 0]
    /\ closedCh = {}
    /\ sendOnClosed = FALSE
    /\ bLast = BrokerCall("NewBroker", "none", "none")
    /\ last = Call("New", "ok")
    /\ startHook = [p \in Plugins |-> "never"]
    /\ started = FALSE
    /\ stopReturned = FALSE
    /\ setStateUsed = FALSE
    /\ commands = Builtins
    /\ cmdLast = NoCmdCall
    /\ pluginRegistry = [n \in {} |-> 0]
    /\ requirements = << >>
    /\ chk = NoCheck
    /\ publishTimeout = DefaultPublishTimeout
    /\ pubSeq = [p \in AllPubIds |-> 0]
    /\ yielded = [s \in AllSubIds |-> 0]
    /\ roomAtStart = [p \in AllPubIds |-> {}]

\* ------------------------------------------------------------- AddPlugin
\* Variant of config.IsPluginEnabled: the configuration is not consulted.
IsPluginEnabledAlways(name) == TRUE

\* config.IsPluginEnabled: a plugin without a config entry is enabled.
IsPluginEnabled(name) == name \notin DisabledPlugins

AddPlugin(p) ==
    /\ muFree
    /\ IF ~IsPluginEnabled(p)
       THEN /\ last' = Call("AddPlugin", "ok")
            /\ UNCHANGED plugins
       ELSE IF p \in plugins
       THEN /\ last' = Call("AddPlugin", "err_already_added")
            /\ UNCHANGED plugins
       ELSE /\ plugins' = plugins \cup {p}
            /\ last' = Call("AddPlugin", "ok")
    /\ UNCHANGED <<state, executor, currentTask, stopPc, gor, bvars, startHook,
                   started, stopReturned, setStateUsed, ovars>>

\* ----------------------------------------------------------------- Start
\* All orders in which `for name, p := range d.plugins` may visit a set.
RECURSIVE Orders(_)
Orders(S) ==
    IF S = {} THEN {<< >>}
    ELSE UNION {{<<x>> \o o : o \in Orders(S \ {x})} : x \in S}

HookOutcomes == {"req_fail", "start_fail", "ok"}

\* Variant of the loop body of Start: a plugin whose requirements fail is
\* skipped but stays in d.plugins.
StartOneKeepsFailed(p, out, acc) ==
    LET c == [acc EXCEPT !.hooks.checked = @ \cup {p}] IN
    IF out = "req_fail"
    THEN [c EXCEPT !.hooks.reqFailed = @ \cup {p}]
    ELSE LET s == [c EXCEPT !.hooks.startInvoked = @ \cup {p}] IN
         IF out = "start_fail"
         THEN [s EXCEPT !.plugins = @ \ {p}, !.hooks.startFailed = @ \cup {p}]
         ELSE IF p \in ExecutorPlugins
         THEN [s EXCEPT !.executor = p]
         ELSE s

\* One iteration of the plugin loop of Start for plugin p whose hooks
\* return out.  acc carries d.plugins, d.executor and the hooks invoked.
StartOne(p, out, acc) ==
    LET c == [acc EXCEPT !.hooks.checked = @ \cup {p}] IN
    IF out = "req_fail"
    THEN [c EXCEPT !.plugins = @ \ {p}, !.hooks.reqFailed = @ \cup {p}]
    ELSE LET s == [c EXCEPT !.hooks.startInvoked = @ \cup {p}] IN
         IF out = "start_fail"
         THEN [s EXCEPT !.plugins = @ \ {p}, !.hooks.startFailed = @ \cup {p}]
         ELSE IF p \in ExecutorPlugins
         THEN [s EXCEPT !.executor = p]
         ELSE s

\* The plugin loop of Start over the iteration order.
RECURSIVE StartLoop(_, _, _)
StartLoop(order, out, acc) ==
    IF order = << >> THEN acc
    ELSE StartLoop(Tail(order), out, StartOne(Head(order), out[Head(order)], acc))

\* Variant of the first check of Start: only a working daemon rejects.
StartRejectedWorkingOnly == state = StateWorking

\* The first check of Start.
StartRejected == state # StateIdle

Bump(h) == IF h = "never" THEN "once" ELSE "again"

Start ==
    /\ muFree
    /\ IF StartRejected
       THEN /\ last' = Call("Start", "err_already_started")
            /\ UNCHANGED <<plugins, executor, startHook, started, publishTimeout>>
       ELSE \* broker.SetPublishTimeout takes broker.mu.Lock
            /\ brokerReaders = {}
            /\ publishTimeout' = ConfigPublishTimeout
            /\ \E order \in Orders(plugins), out \in [plugins -> HookOutcomes] :
                 LET r == StartLoop(order, out, [plugins |-> plugins,
                                                 executor |-> executor,
                                                 hooks |-> NoHooks]) IN
                 /\ plugins' = r.plugins
                 /\ executor' = r.executor
                 /\ startHook' = [p \in Plugins |->
                                    IF p \in r.hooks.startInvoked
                                    THEN Bump(startHook[p]) ELSE startHook[p]]
                 /\ last' = [Call("Start", "ok") EXCEPT !.hooks = r.hooks]
            /\ started' = TRUE
    /\ UNCHANGED <<state, currentTask, stopPc, gor, bvars, stopReturned, setStateUsed,
                   commands, cmdLast, pluginRegistry, rvars, fvars>>

\* ------------------------------------------------------------------ Stop
\* close(ch) has been called on the channel.
IsClosed(ptr) == \E c \in closedCh : c[1] = ptr[1] /\ c[2] = ptr[2]

\* The channels closed once Broker.Close has run: on an open broker the
\* channel of every subscription is closed.
ClosedByClose ==
    IF bClosed THEN closedCh
    ELSE closedCh \cup {<<s, chanGen[s], "Close">> : s \in DOMAIN subscriptions}

\* Variant of Broker.Close: the table is not cleared.
BrokerCloseKeepsTable(b) == [closed |-> TRUE, subscriptions |-> b.subscriptions]

\* Broker.Close: idempotent; closes every subscription channel and clears
\* the table.
BrokerClose(b) ==
    IF b.closed THEN b
    ELSE [closed |-> TRUE, subscriptions |-> [s \in {} |-> 0]]

\* Variant of one iteration of the plugin loop of Stop: once a Stop hook
\* has returned an error the remaining plugins are not stopped.
StopOneUnlessFailed(p, failed, acc) ==
    IF acc.stopFailed # {} THEN acc
    ELSE LET a == [acc EXCEPT !.stopInvoked = @ \cup {p}]
         IN IF p \in failed THEN [a EXCEPT !.stopFailed = @ \cup {p}] ELSE a

\* One iteration of the plugin loop of Stop: p.Stop(ctx) is called; the
\* hooks of the plugins in failed return an error, which is logged.
StopOne(p, failed, acc) ==
    LET a == [acc EXCEPT !.stopInvoked = @ \cup {p}]
    IN IF p \in failed THEN [a EXCEPT !.stopFailed = @ \cup {p}] ELSE a

\* The plugin loop of Stop over the iteration order; acc carries the hooks
\* invoked.
RECURSIVE StopLoop(_, _, _)
StopLoop(order, failed, acc) ==
    IF order = << >> THEN acc
    ELSE StopLoop(Tail(order), failed, StopOne(Head(order), failed, acc))

\* Variant of the first check of Stop: no call is a no-op.
StopNoopNever == FALSE

\* The first check of Stop: a stopped daemon returns nil at once.
StopNoop == state = StateStopped

\* Stop up to its first blocking point: the stopped check, d.cancel() and
\* the plugin Stop hooks (their errors are only logged).
StopBegin ==
    /\ muFree
    /\ IF StopNoop
       THEN /\ last' = Call("Stop", "ok")
            /\ UNCHANGED stopPc
       ELSE /\ stopPc' = "close"
            /\ \E order \in Orders(plugins), failed \in SUBSET plugins :
                 last' = [Call("Stop", "running") EXCEPT
                            !.hooks = StopLoop(order, failed, NoHooks)]
    /\ UNCHANGED <<state, plugins, executor, currentTask, gor, bvars, startHook,
                   started, stopReturned, setStateUsed, ovars>>

\* d.broker.Close() inside Stop: needs broker.mu.Lock, so it waits for
\* every Publish that holds the read lock.
StopClose ==
    /\ stopPc = "close"
    /\ WriteLockFree
    /\ LET b == BrokerClose([closed |-> bClosed, subscriptions |-> subscriptions]) IN
         /\ bClosed' = b.closed
         /\ subscriptions' = b.subscriptions
    /\ closedCh' = ClosedByClose
    /\ stopPc' = "wait"
    /\ UNCHANGED <<state, plugins, executor, currentTask, gor, pub, chanGen,
                   sendOnClosed, bLast, hvars, ovars>>

\* Variant of d.wg.Wait(): it returns at once.
WaitGroupSkipped == TRUE

\* d.wg.Wait() returns once every spawned goroutine has run wg.Done().
WaitGroupDone == wg = 0

\* The rest of Stop: wg.Wait(), d.state = StateStopped, unlock, return nil.
StopFinish ==
    /\ stopPc = "wait"
    /\ WaitGroupDone
    /\ state' = StateStopped
    /\ stopPc' = "none"
    /\ stopReturned' = TRUE
    /\ last' = [last EXCEPT !.ret = "ok"]
    /\ UNCHANGED <<plugins, executor, currentTask, gor, bvars, startHook, started,
                   setStateUsed, ovars>>

\* ----------------------------------------------------------------- Reset
\* Variant of the first check of Reset: only a stopped daemon rejects.
ResetRejectedStoppedOnly == state = StateStopped

\* The first check of Reset.
ResetRejected == state # StateWorking

\* Variant of Reset's return value: the CancelTask error is returned.
ResetReturnPropagates(cancelOutcome) ==
    IF cancelOutcome = "err" THEN "err_cancel" ELSE "ok"

\* What Reset returns once it is past the state check, given the outcome
\* of executor.CancelTask ("none" when CancelTask was not invoked).
ResetReturn(cancelOutcome) == "ok"

Reset ==
    /\ muFree
    /\ IF ResetRejected
       THEN /\ last' = Call("Reset", "err_not_working")
            /\ UNCHANGED <<state, currentTask>>
       ELSE \E c \in (IF executor # NoExecutor /\ currentTask # NoTask
                      THEN {"ok", "err"} ELSE {"none"}) :
            /\ currentTask' = NoTask
            /\ state' = StateIdle
            /\ last' = [Call("Reset", ResetReturn(c)) EXCEPT !.cancel = c]
    /\ UNCHANGED <<plugins, executor, stopPc, gor, bvars, startHook, started,
                   stopReturned, setStateUsed, ovars>>

\* -------------------------------------------------------------- SetState
SetState(s) ==
    /\ muFree
    /\ state' = s
    /\ setStateUsed' = TRUE
    /\ last' = Call("SetState", "ok")
    /\ UNCHANGED <<plugins, executor, currentTask, stopPc, gor, bvars, startHook,
                   started, stopReturned, ovars>>

\* ----------------------------------------------------------- ExecuteTask
\* Variant of the first check of ExecuteTask: only a stopped daemon rejects.
ExecuteRejectedStoppedOnly == state = StateStopped

\* The first check of ExecuteTask: reject unless the daemon is idle.
ExecuteRejected == state # StateIdle

\* Variant of the second check of ExecuteTask: the executor is not looked at.
NoExecutorAvailableNever == FALSE

\* The second check of ExecuteTask: no executor is registered.
NoExecutorAvailable == executor = NoExecutor

FreeGor == {g \in GorIds : gor[g].pc = "none"}

ExecuteTask ==
    /\ muFree
    /\ IF ExecuteRejected
       THEN /\ last' = Call("ExecuteTask", "err_not_idle")
            /\ UNCHANGED <<state, currentTask, gor>>
       ELSE IF NoExecutorAvailable
       THEN /\ last' = Call("ExecuteTask", "err_no_executor")
            /\ UNCHANGED <<state, currentTask, gor>>
       ELSE /\ FreeGor # {}
            /\ LET g == CHOOSE x \in FreeGor : \A y \in FreeGor : x <= y IN
                 /\ gor' = [gor EXCEPT ![g] = [NoGor EXCEPT !.pc = "exec"]]
                 /\ currentTask' = g
            /\ state' = StateWorking
            /\ last' = Call("ExecuteTask", "ok")
    /\ UNCHANGED <<plugins, executor, stopPc, bvars, startHook, started,
                   stopReturned, setStateUsed, ovars>>

\* ---------------------------------------------------------------- broker
\* Variant of Subscription.wantsTopic: the wildcard is not looked at.
wantsTopicNoWildcard(topics, topic) ==
    \/ Len(topics) = 0
    \/ \E i \in 1..Len(topics) : topics[i] = topic

\* Subscription.wantsTopic
wantsTopic(topics, topic) ==
    \/ Len(topics) = 0
    \/ \E i \in 1..Len(topics) : topics[i] = topic \/ topics[i] = "*"

\* Variant of the closed check of Subscribe: a closed broker registers too.
SubscribeRefusedNever == FALSE

\* The closed check of Subscribe: a closed broker hands out a channel that
\* is made and closed on the spot.
SubscribeRefused == bClosed

\* Broker.Subscribe: takes broker.mu.Lock.  On a closed broker nothing is
\* registered; the channel of an existing subscription for the id is closed
\* and the subscription replaced by one with a new channel.
Subscribe(id, bufSize, topics) ==
    /\ WriteLockFree
    /\ ~brokerWriterPending
    /\ IF SubscribeRefused
       THEN /\ bLast' = BrokerCall("Subscribe", id, "closed_handle")
            /\ UNCHANGED <<subscriptions, chanGen, closedCh, yielded>>
       ELSE /\ chanGen[id] < MaxGen
            /\ bLast' = BrokerCall("Subscribe", id, "handle")
            /\ closedCh' = IF id \in DOMAIN subscriptions
                           THEN closedCh \cup {<<id, chanGen[id], "Subscribe">>}
                           ELSE closedCh
            /\ chanGen' = [chanGen EXCEPT ![id] = @ + 1]
            /\ subscriptions' =
                 [s \in DOMAIN subscriptions \cup {id} |->
                    IF s = id THEN [topics |-> topics, bufSize |-> bufSize, ch |-> << >>]
                    ELSE subscriptions[s]]
            /\ yielded' = [yielded EXCEPT ![id] = 0]
    /\ UNCHANGED <<dvars, gor, bClosed, pub, sendOnClosed, hvars, commands, cmdLast, pluginRegistry, rvars, publishTimeout, pubSeq, roomAtStart>>

\* Variant of delete(b.subscriptions, id): the table is emptied.
WithoutAny(id) == [s \in {} |-> 0]

\* delete(b.subscriptions, id)
Without(id) == [s \in DOMAIN subscriptions \ {id} |-> subscriptions[s]]

\* Broker.Unsubscribe: takes broker.mu.Lock; closes the channel and deletes
\* the subscription; no-op for an unknown id.
Unsubscribe(id) ==
    /\ WriteLockFree
    /\ ~brokerWriterPending
    /\ closedCh' = IF id \in DOMAIN subscriptions
                   THEN closedCh \cup {<<id, chanGen[id], "Unsubscribe">>}
                   ELSE closedCh
    /\ subscriptions' = Without(id)
    /\ bLast' = BrokerCall("Unsubscribe", id,
                           IF id \in DOMAIN subscriptions THEN "removed" ELSE "unknown")
    /\ UNCHANGED <<dvars, gor, bClosed, pub, chanGen, sendOnClosed, hvars, ovars>>

\* The number of a message: callers number theirs, the daemon's
\* notifications have none.
SeqOf(m) == IF m.source = "daemon" THEN 0 ELSE m.payload

\* The subscriber reads one message from its receive handle.  A queue that
\* was full has room again: a delivery waiting on it can go on.
Receive(id) ==
    /\ id \in DOMAIN subscriptions
    /\ subscriptions[id].ch # << >>
    /\ subscriptions' = [subscriptions EXCEPT ![id].ch = Tail(@)]
    /\ yielded' = [yielded EXCEPT ![id] = SeqOf(Head(subscriptions[id].ch))]
    /\ pub' = [p \in AllPubIds |->
                 IF pub[p].pc = "fanout" /\ \E i \in pub[p].pending : pub[p].targets[i][1] = id
                 THEN [pub[p] EXCEPT !.room = @ \cup {id}]
                 ELSE pub[p]]
    /\ UNCHANGED <<dvars, gor, bClosed, chanGen, closedCh, sendOnClosed, bLast, hvars,
                   commands, cmdLast, pluginRegistry, rvars, publishTimeout, pubSeq, roomAtStart>>

\* Broker.Close called on an open or closed broker.
Close ==
    /\ WriteLockFree
    /\ ~brokerWriterPending
    /\ LET b == BrokerClose([closed |-> bClosed, subscriptions |-> subscriptions]) IN
         /\ bClosed' = b.closed
         /\ subscriptions' = b.subscriptions
    /\ closedCh' = ClosedByClose
    /\ bLast' = BrokerCall("Close", "none", IF bClosed THEN "noop" ELSE "closed")
    /\ UNCHANGED <<dvars, gor, pub, chanGen, sendOnClosed, hvars, ovars>>

\* Broker.SetPublishTimeout: takes broker.mu.Lock.
SetPublishTimeout(timeout) ==
    /\ WriteLockFree
    /\ ~brokerWriterPending
    /\ publishTimeout' = timeout
    /\ UNCHANGED <<dvars, gor, bvars, hvars, commands, cmdLast, pluginRegistry, rvars, fvars>>

\* --------------------------------------------------------------- Publish
\* The message a caller publishes on a topic.
Message(p, topic) == [topic |-> topic, payload |-> pubSeq[p], source |-> p]

\* Variant of the closed check of Publish: a closed broker goes on to the
\* target loop.
PublishRefusedNever == FALSE

\* The closed check of Publish: "broker is closed".
PublishRefused == bClosed

\* Variant of the channel send: the message goes in front of the queue.
EnqueueFront(q, m) == <<m>> \o q

\* ch <- msg on a buffered channel with room: the message goes behind the
\* messages resting in the buffer.
Enqueue(q, m) == Append(q, m)

\* Variant of the target loop: a subscription is appended once for every
\* entry of its filter that matches.
TargetPerMatch(id, topic) ==
    LET F == subscriptions[id].topics
        n == Cardinality({i \in 1..Len(F) : F[i] = topic \/ F[i] = "*"})
    IN IF Len(F) = 0 THEN << <<id, chanGen[id]>> >>
       ELSE [i \in 1..n |-> <<id, chanGen[id]>>]

\* One iteration of the target loop of Publish: the subscription (a pointer
\* to it, here its id and channel number) is appended when it wants the
\* topic.
TargetOf(id, topic) ==
    IF wantsTopic(subscriptions[id].topics, topic)
    THEN << <<id, chanGen[id]>> >>
    ELSE << >>

\* The target loop of Publish over an iteration order of b.subscriptions.
RECURSIVE Targets(_, _)
Targets(order, topic) ==
    IF order = << >> THEN << >>
    ELSE TargetOf(Head(order), topic) \o Targets(Tail(order), topic)

\* Variant of the empty check: Publish goes on to the fan-out.
NoTargetsNever(targets) == FALSE

\* len(targets) == 0
NoTargets(targets) == Len(targets) = 0

\* The subscriptions among the targets whose queue has a free slot.
WithRoom(targets) ==
    {targets[i][1] : i \in {j \in 1..Len(targets) :
        Len(subscriptions[targets[j][1]].ch) < subscriptions[targets[j][1]].bufSize}}

\* Broker.Publish up to the fan-out: RLock, closed check, target list, empty
\* check.  The read lock is kept until PubReturn.
PublishEntry(p, topic) ==
    /\ pub[p].pc = "idle"
    /\ ~brokerWriterPending
    /\ IF PublishRefused
       THEN pub' = [pub EXCEPT ![p] =
                      [NoPub EXCEPT !.pc = "done", !.topic = topic,
                                    !.ret = [kind |-> "closed", sub |-> "none"]]]
       ELSE \E order \in Orders(DOMAIN subscriptions) :
              LET targets == Targets(order, topic) IN
              IF NoTargets(targets)
              THEN pub' = [pub EXCEPT ![p] =
                             [NoPub EXCEPT !.pc = "done", !.topic = topic,
                                           !.ret = [kind |-> "ok", sub |-> "none"]]]
              ELSE pub' = [pub EXCEPT ![p] =
                             [NoPub EXCEPT !.pc = "fanout", !.topic = topic,
                                           !.targets = targets,
                                           !.pending = 1..Len(targets),
                                           !.room = WithRoom(targets)]]
    /\ UNCHANGED <<dvars, gor, bClosed, subscriptions, chanGen, closedCh, sendOnClosed, bLast,
                   hvars>>

\* A Publish call of a caller that does not number its messages.
PublishBegin(p, topic) == PublishEntry(p, topic) /\ UNCHANGED ovars

\* The next Publish call of a caller that numbers its messages: it is made
\* once the call before has returned.
PublishNext(p, topic) ==
    /\ pubSeq[p] < MaxMsgs
    /\ PublishEntry(p, topic)
    /\ pubSeq' = [pubSeq EXCEPT ![p] = @ + 1]
    /\ UNCHANGED <<commands, cmdLast, pluginRegistry, rvars, publishTimeout, yielded, roomAtStart>>

\* A Publish call whose targets with a free slot are recorded when the
\* fan-out begins.
PublishFanOut(p, topic) ==
    /\ PublishEntry(p, topic)
    /\ roomAtStart' = [roomAtStart EXCEPT ![p] = pub'[p].room]
    /\ UNCHANGED <<commands, cmdLast, pluginRegistry, rvars, publishTimeout, pubSeq, yielded>>

\* The caller's ctx of Publish is cancelled while the call is running.
PubCtxCancel(p) ==
    /\ pub[p].pc = "fanout"
    /\ ~pub[p].ctxDone
    /\ pub' = [pub EXCEPT ![p].ctxDone = TRUE]
    /\ UNCHANGED <<dvars, gor, bClosed, subscriptions, chanGen, closedCh, sendOnClosed, bLast,
                   hvars, ovars>>

\* Delivery i of the fan-out of caller p has returned err (NoRet for nil).
\* The errgroup keeps the first error and cancels its ctx; when it was the
\* last delivery g.Wait() returns and the return value of Publish is that
\* error, or nil.
PubResolved(p, i, err) ==
    LET pend == pub[p].pending \ {i}
        first == IF pub[p].ret = NoRet THEN err ELSE pub[p].ret
    IN IF pend = {}
       THEN [pub[p] EXCEPT !.pc = "done", !.pending = {},
                           !.ret = IF first = NoRet
                                   THEN [kind |-> "ok", sub |-> "none"] ELSE first]
       ELSE [pub[p] EXCEPT !.pending = pend, !.ret = first]

\* publishToSubscriber, case sub.ch <- msg.  A send on a closed channel
\* panics.  An unbuffered channel hands the message to a reader that is
\* waiting on the receive handle.
PubAccept(p, i) ==
    /\ pub[p].pc = "fanout"
    /\ i \in pub[p].pending
    /\ LET ptr == pub[p].targets[i]
           id == ptr[1]
       IN IF IsClosed(ptr)
          THEN /\ sendOnClosed' = TRUE
               /\ pub' = [pub EXCEPT ![p] = PubResolved(p, i, NoRet)]
               /\ UNCHANGED <<subscriptions, yielded>>
          ELSE /\ \/ /\ subscriptions[id].bufSize = 0
                     /\ yielded' = [yielded EXCEPT ![id] = SeqOf(Message(p, pub[p].topic))]
                     /\ UNCHANGED subscriptions
                  \/ /\ Len(subscriptions[id].ch) < subscriptions[id].bufSize
                     /\ subscriptions' =
                          [subscriptions EXCEPT ![id].ch = Enqueue(@, Message(p, pub[p].topic))]
                     /\ UNCHANGED yielded
               /\ pub' = [pub EXCEPT ![p] =
                            [PubResolved(p, i, NoRet) EXCEPT !.delivered[id] = @ + 1,
                                                             !.room = @ \cup {id}]]
               /\ UNCHANGED sendOnClosed
    /\ UNCHANGED <<dvars, gor, bClosed, chanGen, closedCh, bLast, hvars, commands, cmdLast, pluginRegistry, rvars, publishTimeout, pubSeq, roomAtStart>>

\* Variant of the timeout error: the subscriber is not named.
SlowConsumerErrorUnnamed(id) == [kind |-> "slow", sub |-> "none"]

\* fmt.Errorf("timeout publishing to %s (slow consumer)", sub.id)
SlowConsumerError(id) == [kind |-> "slow", sub |-> id]

\* Variant of the timer: it never fires.
TimeoutNever(id) == FALSE

\* time.After(b.publishTimeout) fires before the send has gone through: the
\* queue has no free slot (the timeout is at least 1s, a send on a queue
\* with a free slot goes through at once).
TimeoutFires(id) == Len(subscriptions[id].ch) >= subscriptions[id].bufSize

\* publishToSubscriber, case <-time.After(b.publishTimeout): the queue
\* could not take the message for the whole timeout (it is at least 1s).
PubTimeout(p, i) ==
    /\ pub[p].pc = "fanout"
    /\ i \in pub[p].pending
    /\ LET ptr == pub[p].targets[i]
           id == ptr[1]
       IN /\ ~IsClosed(ptr)
          /\ TimeoutFires(id)
          /\ pub' = [pub EXCEPT ![p] = PubResolved(p, i, SlowConsumerError(id))]
    /\ UNCHANGED <<dvars, gor, bClosed, subscriptions, chanGen, closedCh, sendOnClosed, bLast,
                   hvars, ovars>>

\* publishToSubscriber, case <-ctx.Done(): the caller's ctx is cancelled,
\* or the errgroup cancelled its ctx after an earlier delivery failed.
PubCtxDone(p, i) ==
    /\ pub[p].pc = "fanout"
    /\ i \in pub[p].pending
    /\ pub[p].ctxDone \/ pub[p].ret # NoRet
    /\ pub' = [pub EXCEPT ![p] = PubResolved(p, i, [kind |-> "ctx", sub |-> "none"])]
    /\ UNCHANGED <<dvars, gor, bClosed, subscriptions, chanGen, closedCh, sendOnClosed, bLast,
                   hvars, ovars>>

\* Publish returns: the deferred RUnlock runs and the caller has the
\* return value.
PubReturn(p) ==
    /\ pub[p].pc = "done"
    /\ pub' = [pub EXCEPT ![p] = NoPub]
    /\ UNCHANGED <<dvars, gor, bClosed, subscriptions, chanGen, closedCh, sendOnClosed, bLast,
                   hvars, ovars>>

\* ------------------------------------------- ExecuteTask: the goroutine
\* The caller's ctx of ExecuteTask is cancelled by its owner.  Only the
\* fan-out of Publish looks at it, so the cancellation is observed there.
CtxCancel(g) ==
    /\ gor[g].pc = "deliver"
    /\ ~gor[g].ctxDone
    /\ gor' = [gor EXCEPT ![g].ctxDone = TRUE]
    /\ UNCHANGED <<dvars, bvars, hvars, ovars>>

\* Variant of the goroutine: it goes from the executor call straight to
\* the completion step.
AfterExecComplete == "lock"

\* After the executor call the goroutine publishes the notification.
AfterExec == "publish"

\* d.executor.ExecuteTask(ctx, task) returns, with nil or with an error.
GoExecReturn(g) ==
    /\ gor[g].pc = "exec"
    /\ \E r \in {"ok", "err"} :
         gor' = [gor EXCEPT ![g].pc = AfterExec, ![g].res = r]
    /\ UNCHANGED <<dvars, bvars, hvars, ovars>>

\* The notification the goroutine publishes for executor result r.
Notification(r) ==
    [topic |-> "notification",
     payload |-> IF r = "ok" THEN "Task completed successfully" ELSE "Task failed",
     source |-> "daemon"]

\* Broker.Publish up to the fan-out: RLock, closed check, target set.
GoPublishBegin(g) ==
    /\ gor[g].pc = "publish"
    /\ ~brokerWriterPending
    /\ LET targets == {s \in DOMAIN subscriptions :
                          wantsTopic(subscriptions[s].topics, Notification(gor[g].res).topic)}
       IN
       IF PublishRefused
       THEN gor' = [gor EXCEPT ![g] = [NoGor EXCEPT !.pc = "lock", !.pubs = gor[g].pubs + 1,
                                                    !.pubRes = "err"]]
       ELSE IF targets = {}
       THEN gor' = [gor EXCEPT ![g] = [NoGor EXCEPT !.pc = "lock", !.pubs = gor[g].pubs + 1,
                                                    !.pubRes = "ok"]]
       ELSE gor' = [gor EXCEPT ![g].pc = "deliver", ![g].pending = targets]
    /\ UNCHANGED <<dvars, bvars, hvars, ovars>>

\* One delivery of the fan-out of goroutine g has resolved for subscriber
\* s.  When it was the last one, g.Wait() returns, the read lock is
\* released and Publish returns the first error, if any.
Resolved(g, s, failed) ==
    LET pend == gor[g].pending \ {s}
        err == gor[g].gerr \/ failed
    IN IF pend = {}
       THEN [NoGor EXCEPT !.pc = "lock", !.pubs = gor[g].pubs + 1,
                          !.pubRes = IF err THEN "err" ELSE "ok"]
       ELSE [gor[g] EXCEPT !.pending = pend, !.gerr = err]

\* publishToSubscriber, case sub.ch <- msg.  An unbuffered channel hands
\* the message to a reader that is waiting on the receive handle.
GoDeliverAccept(g, s) ==
    /\ gor[g].pc = "deliver"
    /\ s \in gor[g].pending
    /\ \/ /\ subscriptions[s].bufSize = 0
          /\ UNCHANGED subscriptions
       \/ /\ Len(subscriptions[s].ch) < subscriptions[s].bufSize
          /\ subscriptions' =
               [subscriptions EXCEPT ![s].ch = Append(@, Notification(gor[g].res))]
    /\ gor' = [gor EXCEPT ![g] = Resolved(g, s, FALSE)]
    /\ UNCHANGED <<dvars, bClosed, pvars, hvars, ovars>>

\* publishToSubscriber, case <-time.After(b.publishTimeout): the queue
\* could not take the message for the whole timeout (it is at least 1s).
GoDeliverTimeout(g, s) ==
    /\ gor[g].pc = "deliver"
    /\ s \in gor[g].pending
    /\ Len(subscriptions[s].ch) >= subscriptions[s].bufSize
    /\ gor' = [gor EXCEPT ![g] = Resolved(g, s, TRUE)]
    /\ UNCHANGED <<dvars, bvars, hvars, ovars>>

\* publishToSubscriber, case <-ctx.Done(): the caller's ctx is cancelled,
\* or the errgroup cancelled its ctx after an earlier delivery failed.
GoDeliverCtxDone(g, s) ==
    /\ gor[g].pc = "deliver"
    /\ s \in gor[g].pending
    /\ gor[g].ctxDone \/ gor[g].gerr
    /\ gor' = [gor EXCEPT ![g] = Resolved(g, s, TRUE)]
    /\ UNCHANGED <<dvars, bvars, hvars, ovars>>

\* Variant of the completion step: after a failed Publish the goroutine
\* returns without resetting the daemon.
GoCompleteUnlessPublishFailed(g) ==
    /\ gor[g].pc = "lock"
    /\ muFree
    /\ IF gor[g].pubRes = "err"
       THEN UNCHANGED <<state, currentTask>>
       ELSE state' = StateIdle /\ currentTask' = NoTask
    /\ gor' = [gor EXCEPT ![g] = NoGor]
    /\ UNCHANGED <<plugins, executor, stopPc, bvars, hvars, ovars>>

\* The completion step: d.mu.Lock(); state = idle; currentTask = nil;
\* d.mu.Unlock(); then the deferred wg.Done().
GoComplete(g) ==
    /\ gor[g].pc = "lock"
    /\ muFree
    /\ state' = StateIdle
    /\ currentTask' = NoTask
    /\ gor' = [gor EXCEPT ![g] = NoGor]
    /\ UNCHANGED <<plugins, executor, stopPc, bvars, hvars, ovars>>

\* ------------------------------------------------------------ cmd: Router
\* strings.TrimSpace, one end at a time.
RECURSIVE TrimLeft(_)
TrimLeft(s) == IF s # << >> /\ Head(s) = " " THEN TrimLeft(Tail(s)) ELSE s

RECURSIVE TrimRight(_)
TrimRight(s) ==
    IF s # << >> /\ s[Len(s)] = " " THEN TrimRight(SubSeq(s, 1, Len(s) - 1)) ELSE s

TrimSpace(s) == TrimRight(TrimLeft(s))

\* Variant of strings.TrimPrefix(input, "/"): nothing is removed.
TrimPrefixNothing(s) == s

\* strings.TrimPrefix(input, "/"): one leading marker is removed.
TrimPrefix(s) == IF s # << >> /\ Head(s) = "/" THEN Tail(s) ELSE s

\* strings.Fields: the maximal runs of non-blank pieces, in order.  cur is
\* the run being read, acc the runs already complete.
RECURSIVE FieldsFrom(_, _, _)
FieldsFrom(s, cur, acc) ==
    LET done == IF cur = << >> THEN acc ELSE Append(acc, cur) IN
    IF s = << >> THEN done
    ELSE IF Head(s) = " " THEN FieldsFrom(Tail(s), << >>, done)
    ELSE FieldsFrom(Tail(s), Append(cur, Head(s)), acc)

Fields(s) == FieldsFrom(s, << >>, << >>)

\* Router.parseCommand; the empty name is << >>.
parseCommand(input) ==
    LET tokens == Fields(TrimPrefix(input)) IN
    IF Len(tokens) = 0 THEN [name |-> << >>, args |-> << >>]
    ELSE [name |-> tokens[1], args |-> Tail(tokens)]

\* What a call returns: err "none" stands for whatever the handler, called
\* with args, returned; otherwise err is the error, which may quote name
\* and mode; invoked tells whether the handler was called.
Outcome(err, name, args, mode, invoked) ==
    [err |-> err, name |-> name, args |-> args, mode |-> mode, invoked |-> invoked]

containsMode(modes, mode) == \E i \in 1..Len(modes) : modes[i] = mode

\* Variant of the mode check of Execute: an empty modes list admits no mode.
ModeRefusedWhenEmpty(name, mode) ==
    mode # NoMode /\ ~containsMode(commands[name].modes, mode)

\* The mode check of Execute: the context carries a mode, the command has
\* modes, and the mode is not among them.
ModeRefused(name, mode) ==
    /\ mode # NoMode
    /\ Len(commands[name].modes) > 0
    /\ ~containsMode(commands[name].modes, mode)

\* Variant of the error for an unregistered name: the name is left out.
UnknownCommandUnnamed(name) == Outcome("unknown command", << >>, << >>, NoMode, FALSE)

\* fmt.Errorf("unknown command: %s", name)
UnknownCommand(name) == Outcome("unknown command", name, << >>, NoMode, FALSE)

\* CommandRegistry.Execute
ExecuteResult(name, args, mode) ==
    IF name \notin DOMAIN commands
    THEN UnknownCommand(name)
    ELSE IF ModeRefused(name, mode)
    THEN Outcome("not available in mode", name, << >>, mode, FALSE)
    ELSE Outcome("none", name, args, NoMode, TRUE)

\* Router.Route
RouteResult(input, mode) ==
    LET t == TrimSpace(input) IN
    IF t = << >> THEN Outcome("empty command", << >>, << >>, NoMode, FALSE)
    ELSE LET c == parseCommand(t) IN
         IF c.name = << >>
         THEN Outcome("invalid command format", << >>, << >>, NoMode, FALSE)
         ELSE ExecuteResult(c.name, c.args, mode)

\* The caller has taken what the call into package cmd returned.
CmdReturn ==
    /\ cmdLast # NoCmdCall
    /\ cmdLast' = NoCmdCall
    /\ UNCHANGED <<dvars, gor, bvars, hvars, commands, pluginRegistry, rvars, publishTimeout, fvars>>

\* A call of Router.Route with an input line, under a context with or
\* without a mode.
Route(input, mode) ==
    /\ cmdLast = NoCmdCall
    /\ cmdLast' = [op |-> "Route", input |-> input, mode |-> mode,
                   out |-> RouteResult(input, mode)]
    /\ UNCHANGED <<dvars, gor, bvars, hvars, commands, pluginRegistry, rvars, publishTimeout, fvars>>

\* ------------------------------------------- plugin: RequirementChecker
\* Names of requirements.
ReqNames == {"api_key", "mode"}

\* fmt.Sprintf("%s: %v", req.Name, err)
Msg(req) == <<req.name, ": ", "err">>

\* rc.Add, which AddRequired and AddOptional call with Required true / false.
Add(name, required) ==
    /\ chk.pc = "idle"
    /\ Len(requirements) < MaxReqs
    /\ requirements' = Append(requirements, [name |-> name, required |-> required])
    /\ UNCHANGED <<dvars, gor, bvars, hvars, commands, cmdLast, pluginRegistry, chk, publishTimeout, fvars>>

\* rc.Check up to the loop: nil at once when there is no requirement.
CheckBegin ==
    /\ chk.pc = "idle"
    /\ chk' = IF Len(requirements) = 0
              THEN [NoCheck EXCEPT !.pc = "returned",
                                   !.ret = [err |-> "nil", list |-> << >>]]
              ELSE [NoCheck EXCEPT !.pc = "loop", !.i = 1]
    /\ UNCHANGED <<dvars, gor, bvars, hvars, commands, cmdLast, pluginRegistry,
                   requirements, publishTimeout, fvars>>

\* Variant of the loop: it ends at the first failed required check.
AfterCheckFailFast(i, n, requiredFailed) == IF requiredFailed THEN n + 1 ELSE i + 1

\* The loop goes on to the next requirement whatever the check returned.
AfterCheck(i, n, requiredFailed) == i + 1

\* One iteration of the loop: req.CheckFunc(ctx) returns an error or nil.
CheckStep ==
    /\ chk.pc = "loop"
    /\ chk.i <= Len(requirements)
    /\ \E failed \in BOOLEAN :
         LET req == requirements[chk.i] IN
         chk' = [chk EXCEPT
                   !.ran = Append(@, chk.i),
                   !.failed = IF failed THEN @ \cup {chk.i} ELSE @,
                   !.errors = IF failed /\ req.required THEN Append(@, Msg(req)) ELSE @,
                   !.warnings = IF failed /\ ~req.required THEN Append(@, Msg(req)) ELSE @,
                   !.i = AfterCheck(chk.i, Len(requirements), failed /\ req.required)]
    /\ UNCHANGED <<dvars, gor, bvars, hvars, commands, cmdLast, pluginRegistry,
                   requirements, publishTimeout, fvars>>

\* rc.Check after the loop: an error joining the messages of the failed
\* required checks, or nil.
CheckEnd ==
    /\ chk.pc = "loop"
    /\ chk.i > Len(requirements)
    /\ chk' = [chk EXCEPT
                 !.pc = "returned",
                 !.ret = IF Len(chk.errors) > 0
                         THEN [err |-> "requirement check(s) failed",
                               list |-> chk.errors]
                         ELSE [err |-> "nil", list |-> << >>]]
    /\ UNCHANGED <<dvars, gor, bvars, hvars, commands, cmdLast, pluginRegistry,
                   requirements, publishTimeout, fvars>>

\* The caller has the result of rc.Check.
CheckReturn ==
    /\ chk.pc = "returned"
    /\ chk' = NoCheck
    /\ UNCHANGED <<dvars, gor, bvars, hvars, commands, cmdLast, pluginRegistry,
                   requirements, publishTimeout, fvars>>

\* ---------------------------------------------------- cmd: the registry
\* Variant of the duplicate check of cmd.Register: no name is taken.
AlreadyRegisteredNever(name) == FALSE

\* The duplicate check of cmd.Register.
AlreadyRegistered(name) == name \in DOMAIN commands

\* cmd.Register: panics on a name already present, else stores the command.
Register(name, modes, hidden) ==
    /\ cmdLast = NoCmdCall
    /\ IF AlreadyRegistered(name)
       THEN /\ cmdLast' = [op |-> "Register", name |-> name, out |-> "panic"]
            /\ UNCHANGED commands
       ELSE /\ cmdLast' = [op |-> "Register", name |-> name, out |-> "ok"]
            /\ commands' = [n \in DOMAIN commands \cup {name} |->
                              IF n = name THEN [modes |-> modes, hidden |-> hidden]
                              ELSE commands[n]]
    /\ UNCHANGED <<dvars, gor, bvars, hvars, pluginRegistry, rvars, publishTimeout, fvars>>

\* plugin.Register: panics on a name already present, else stores the
\* plugin under p.Name().
RegisterPlugin(p) ==
    /\ cmdLast = NoCmdCall
    /\ IF p[1] \in DOMAIN pluginRegistry
       THEN /\ cmdLast' = [op |-> "plugin.Register", name |-> p[1], out |-> "panic"]
            /\ UNCHANGED pluginRegistry
       ELSE /\ cmdLast' = [op |-> "plugin.Register", name |-> p[1], out |-> "ok"]
            /\ pluginRegistry' = [n \in DOMAIN pluginRegistry \cup {p[1]} |->
                                    IF n = p[1] THEN p ELSE pluginRegistry[n]]
    /\ UNCHANGED <<dvars, gor, bvars, hvars, commands, rvars, publishTimeout, fvars>>

\* CommandRegistry.Clear
Clear ==
    /\ cmdLast = NoCmdCall
    /\ commands # [n \in {} |-> 0]
    /\ commands' = [n \in {} |-> 0]
    /\ UNCHANGED <<dvars, gor, bvars, hvars, cmdLast, pluginRegistry, rvars, publishTimeout, fvars>>

\* A call of CommandRegistry.Execute.
Execute(name, args, mode) ==
    /\ cmdLast = NoCmdCall
    /\ cmdLast' = [op |-> "Execute", name |-> name, args |-> args, mode |-> mode,
                   out |-> ExecuteResult(name, args, mode)]
    /\ UNCHANGED <<dvars, gor, bvars, hvars, commands, pluginRegistry, rvars, publishTimeout, fvars>>

\* The position of a name in the order of strings.
Rank(name) == CHOOSE i \in 1..Len(NameOrder) : NameOrder[i] = name

\* Variant of the less function: no name is before another.
LessNever(a, b) == FALSE

\* The less function of sort.Slice: commands[i].Name < commands[j].Name.
Less(a, b) == Rank(a) < Rank(b)

RECURSIVE Insert(_, _)
Insert(n, sorted) ==
    IF sorted = << >> THEN <<n>>
    ELSE IF Less(n, Head(sorted)) THEN <<n>> \o sorted
    ELSE <<Head(sorted)>> \o Insert(n, Tail(sorted))

\* sort.Slice(available, less)
RECURSIVE SortByName(_)
SortByName(seq) ==
    IF seq = << >> THEN << >> ELSE Insert(Head(seq), SortByName(Tail(seq)))

\* The filter loop of ListCommands over an iteration order of the map.
RECURSIVE Available(_, _)
Available(order, mode) ==
    IF order = << >> THEN << >>
    ELSE LET cmd == commands[Head(order)]
             rest == Available(Tail(order), mode)
         IN IF cmd.hidden THEN rest
            ELSE IF Len(cmd.modes) = 0 \/ containsMode(cmd.modes, mode)
            THEN <<Head(order)>> \o rest
            ELSE rest

\* A call of CommandRegistry.ListCommands; the commands are given by name.
ListCommands(mode) ==
    /\ cmdLast = NoCmdCall
    /\ \E order \in Orders(DOMAIN commands) :
         cmdLast' = [op |-> "ListCommands", mode |-> mode,
                     out |-> SortByName(Available(order, mode))]
    /\ UNCHANGED <<dvars, gor, bvars, hvars, commands, pluginRegistry, rvars, publishTimeout, fvars>>

\* -------------------------------------------------------- specifications
\* The daemon life cycle from New(), on a broker nobody subscribes to.
Next ==
    \/ \E p \in Plugins : AddPlugin(p)
    \/ Start
    \/ StopBegin
    \/ StopClose
    \/ StopFinish
    \/ Reset
    \/ \E s \in States : SetState(s)
    \/ ExecuteTask
    \/ \E g \in GorIds : GoExecReturn(g)
    \/ \E g \in GorIds : GoPublishBegin(g)
    \/ \E g \in GorIds : GoComplete(g)

Spec == Init /\ [][Next]_vars

\* The daemon after AddPlugin("llm") and a Start() in which both hooks of
\* the plugin succeeded.
InitStarted ==
    /\ state = StateIdle
    /\ plugins = {"llm"}
    /\ executor = "llm"
    /\ currentTask = NoTask
    /\ stopPc = "none"
    /\ gor = [g \in GorIds |-> NoGor]
    /\ bClosed = FALSE
    /\ subscriptions = [s \in {} |-> 0]
    /\ pub = [p \in AllPubIds |-> NoPub]
    /\ chanGen = [s \in AllSubIds |-> 0]
    /\ closedCh = {}
    /\ sendOnClosed = FALSE
    /\ bLast = BrokerCall("NewBroker", "none", "none")
    /\ last = [Call("Start", "ok") EXCEPT !.hooks.checked = {"llm"},
                                          !.hooks.startInvoked = {"llm"}]
    /\ startHook = [p \in Plugins |-> IF p = "llm" THEN "once" ELSE "never"]
    /\ started = TRUE
    /\ stopReturned = FALSE
    /\ setStateUsed = FALSE
    /\ commands = Builtins
    /\ cmdLast = NoCmdCall
    /\ pluginRegistry = [n \in {} |-> 0]
    /\ requirements = << >>
    /\ chk = NoCheck
    /\ publishTimeout = DefaultPublishTimeout
    /\ pubSeq = [p \in AllPubIds |-> 0]
    /\ yielded = [s \in AllSubIds |-> 0]
    /\ roomAtStart = [p \in AllPubIds |-> {}]

\* Task execution on the started daemon, with subscribers on the broker.
NextTask ==
    \/ ExecuteTask
    \/ Reset
    \/ StopBegin
    \/ StopClose
    \/ StopFinish
    \/ \E id \in SubIds, b \in BufSizes, f \in TopicFilters : Subscribe(id, b, f)
    \/ \E id \in SubIds : Unsubscribe(id)
    \/ \E id \in SubIds : Receive(id)
    \/ \E g \in GorIds : CtxCancel(g)
    \/ \E g \in GorIds : GoExecReturn(g)
    \/ \E g \in GorIds : GoPublishBegin(g)
    \/ \E g \in GorIds, s \in SubIds : GoDeliverAccept(g, s)
    \/ \E g \in GorIds, s \in SubIds : GoDeliverTimeout(g, s)
    \/ \E g \in GorIds, s \in SubIds : GoDeliverCtxDone(g, s)
    \/ \E g \in GorIds : GoComplete(g)

TaskSpec == InitStarted /\ [][NextTask]_vars

TypeOK ==
    /\ state \in States
    /\ plugins \subseteq Plugins
    /\ executor \in ExecutorPlugins \cup {NoExecutor}
    /\ currentTask \in GorIds \cup {NoTask}
    /\ stopPc \in {"none", "close", "wait"}
    /\ bClosed \in BOOLEAN
    /\ sendOnClosed \in BOOLEAN
    /\ chanGen \in [AllSubIds -> 0..MaxGen]
    /\ DOMAIN subscriptions \subseteq AllSubIds
    /\ \A p \in AllPubIds : pub[p].pc \in {"idle", "fanout", "done"}

\* One delivery attempt of goroutine g resolves: queue accept, timeout or
\* context cancellation.
GoDeliver(g) ==
    \E s \in SubIds : GoDeliverAccept(g, s) \/ GoDeliverTimeout(g, s) \/ GoDeliverCtxDone(g, s)

\* Every executor invocation returns, every delivery attempt resolves (the
\* publish timeout is finite), a goroutine that can take a lock takes it,
\* and a Stop call that can go on goes on.
Fairness ==
    /\ \A g \in GorIds : WF_vars(GoExecReturn(g))
    /\ \A g \in GorIds : WF_vars(GoPublishBegin(g))
    /\ \A g \in GorIds : WF_vars(GoDeliver(g))
    /\ \A g \in GorIds : WF_vars(GoComplete(g))
    /\ WF_vars(StopClose)
    /\ WF_vars(StopFinish)

FairTaskSpec == TaskSpec /\ Fairness

\* The broker on its own: subscribers come and go and read their queues,
\* callers publish on topics, the broker is closed.
NextBroker ==
    \/ \E id \in BrokerSubIds, b \in BufSizes, f \in BrokerFilters : Subscribe(id, b, f)
    \/ \E id \in BrokerSubIds : Unsubscribe(id)
    \/ \E id \in BrokerSubIds : Receive(id)
    \/ Close
    \/ \E p \in PubIds, t \in Topics : PublishBegin(p, t)
    \/ \E p \in PubIds : PubCtxCancel(p)
    \/ \E p \in PubIds, i \in 1..Cardinality(BrokerSubIds) : PubAccept(p, i)
    \/ \E p \in PubIds, i \in 1..Cardinality(BrokerSubIds) : PubTimeout(p, i)
    \/ \E p \in PubIds, i \in 1..Cardinality(BrokerSubIds) : PubCtxDone(p, i)
    \/ \E p \in PubIds : PubReturn(p)

BrokerSpec == Init /\ [][NextBroker]_vars

\* The broker after any of the Subscribe calls of up to two subscribers.
InitSubscribed ==
    /\ state = StateIdle
    /\ plugins = {}
    /\ executor = NoExecutor
    /\ currentTask = NoTask
    /\ stopPc = "none"
    /\ gor = [g \in GorIds |-> NoGor]
    /\ bClosed = FALSE
    /\ \E D \in SUBSET BrokerSubIds :
         /\ subscriptions \in [D -> [topics : BrokerFilters, bufSize : BufSizes, ch : {<< >>}]]
         /\ chanGen = [s \in AllSubIds |-> IF s \in D THEN 1 ELSE 0]
         /\ bLast \in {BrokerCall("Subscribe", s, "handle") : s \in D}
                        \cup {b \in {BrokerCall("NewBroker", "none", "none")} : D = {}}
    /\ pub = [p \in AllPubIds |-> NoPub]
    /\ closedCh = {}
    /\ sendOnClosed = FALSE
    /\ last = Call("New", "ok")
    /\ startHook = [p \in Plugins |-> "never"]
    /\ started = FALSE
    /\ stopReturned = FALSE
    /\ setStateUsed = FALSE
    /\ commands = Builtins
    /\ cmdLast = NoCmdCall
    /\ pluginRegistry = [n \in {} |-> 0]
    /\ requirements = << >>
    /\ chk = NoCheck
    /\ publishTimeout = DefaultPublishTimeout
    /\ pubSeq = [p \in AllPubIds |-> 0]
    /\ yielded = [s \in AllSubIds |-> 0]
    /\ roomAtStart = [p \in AllPubIds |-> {}]

\* Publish calls on those subscriptions, the subscribers reading or not.
NextPublish ==
    \/ \E id \in BrokerSubIds : Receive(id)
    \/ \E p \in PubIds, t \in Topics : PublishBegin(p, t)
    \/ \E p \in PubIds : PubCtxCancel(p)
    \/ \E p \in PubIds, i \in 1..Cardinality(BrokerSubIds) : PubAccept(p, i)
    \/ \E p \in PubIds, i \in 1..Cardinality(BrokerSubIds) : PubTimeout(p, i)
    \/ \E p \in PubIds, i \in 1..Cardinality(BrokerSubIds) : PubCtxDone(p, i)
    \/ \E p \in PubIds : PubReturn(p)

\* One delivery attempt of caller p's Publish resolves.
PubDeliver(p) ==
    \E i \in 1..Cardinality(BrokerSubIds) :
       PubAccept(p, i) \/ PubTimeout(p, i) \/ PubCtxDone(p, i)

\* Every delivery goroutine of the fan-out is scheduled and its timer is
\* finite; a Publish call whose g.Wait() has returned returns.  Nothing is
\* assumed about the subscribers reading.
PublishFairness ==
    /\ \A p \in PubIds : WF_vars(PubDeliver(p))
    /\ \A p \in PubIds : WF_vars(PubReturn(p))

FairPublishSpec == InitSubscribed /\ [][NextPublish]_vars /\ PublishFairness

\* The registries Route is called on: the built-in commands alone, or with
\* a command "x" a plugin registered for interactive mode only.
RouterRegistries ==
    {Builtins,
     [n \in {<<"status">>, <<"x">>} |->
        IF n = <<"x">> THEN [modes |-> <<ModeInteractive>>, hidden |-> FALSE]
        ELSE Builtins[n]]}

InitRouter ==
    /\ state = StateIdle
    /\ plugins = {}
    /\ executor = NoExecutor
    /\ currentTask = NoTask
    /\ stopPc = "none"
    /\ gor = [g \in GorIds |-> NoGor]
    /\ bClosed = FALSE
    /\ subscriptions = [s \in {} |-> 0]
    /\ pub = [p \in AllPubIds |-> NoPub]
    /\ chanGen = [s \in AllSubIds |-> 0]
    /\ closedCh = {}
    /\ sendOnClosed = FALSE
    /\ bLast = BrokerCall("NewBroker", "none", "none")
    /\ last = Call("New", "ok")
    /\ startHook = [p \in Plugins |-> "never"]
    /\ started = FALSE
    /\ stopReturned = FALSE
    /\ setStateUsed = FALSE
    /\ commands \in RouterRegistries
    /\ cmdLast = NoCmdCall
    /\ pluginRegistry = [n \in {} |-> 0]
    /\ requirements = << >>
    /\ chk = NoCheck
    /\ publishTimeout = DefaultPublishTimeout
    /\ pubSeq = [p \in AllPubIds |-> 0]
    /\ yielded = [s \in AllSubIds |-> 0]
    /\ roomAtStart = [p \in AllPubIds |-> {}]

\* An input line is routed.
NextRouter == \E input \in Lines, mode \in Modes \cup {NoMode} : Route(input, mode)

RouterSpec == InitRouter /\ [][NextRouter]_vars

\* The two registries from the init() of package cmd on: commands and
\* plugins are registered, the registry is cleared, commands are executed
\* and listed.
NextRegistry ==
    \/ \E name \in CmdNames, modes \in ModeLists, hidden \in BOOLEAN :
         Register(name, modes, hidden)
    \/ \E p \in PluginInstances : RegisterPlugin(p)
    \/ Clear
    \/ \E name \in CmdNames, args \in ArgLists, mode \in Modes \cup {NoMode} :
         Execute(name, args, mode)
    \/ \E mode \in Modes : ListCommands(mode)
    \/ CmdReturn

RegistrySpec == Init /\ [][NextRegistry]_vars

\* ------------------------------------------------------------------ claims
\* Goroutines whose executor invocation has not yet returned.
InFlight == {g \in GorIds : gor[g].pc = "exec"}

\* C1: at most one task accepted by ExecuteTask is in flight (accepted and
\* its executor invocation not yet finished) at any moment.
C1_SingleFlight == Cardinality(InFlight) <= 1

\* C2: ExecuteTask called while the state is working returns the busy
\* error, leaves the state working, leaves the task slot as it was and
\* spawns no background execution.
C2_BusyRejected ==
    [][(state = StateWorking /\ last'.op = "ExecuteTask" /\ ExecuteTask) =>
         /\ last'.ret = "err_not_idle"
         /\ state' = StateWorking
         /\ currentTask' = currentTask
         /\ gor' = gor]_vars

C2_Witness ==
    /\ last = Call("ExecuteTask", "err_not_idle")
    /\ state = StateWorking
    /\ currentTask # NoTask
    /\ gor[currentTask].pc = "exec"

\* C3: Reset called while the state is working returns success with state
\* idle and the task slot empty, whether CancelTask succeeded, failed or
\* was not invoked; the CancelTask error is never returned.
C3_ResetWorking ==
    [][(state = StateWorking /\ last'.op = "Reset" /\ Reset) =>
         /\ last'.ret = "ok"
         /\ state' = StateIdle
         /\ currentTask' = NoTask]_vars

C3_Witness ==
    /\ last.op = "Reset"
    /\ last.cancel = "err"
    /\ last.ret = "ok"
    /\ state = StateIdle
    /\ currentTask = NoTask

\* C4: Reset called while the state is not working returns an error,
\* leaves state and task slot unchanged and does not invoke CancelTask.
C4_ResetNotWorking ==
    [][(state # StateWorking /\ last'.op = "Reset" /\ Reset) =>
         /\ last'.ret = "err_not_working"
         /\ last'.cancel = "none"
         /\ state' = state
         /\ currentTask' = currentTask]_vars

C4_Witness ==
    /\ last = Call("Reset", "err_not_working")
    /\ state = StateIdle
    /\ executor # NoExecutor
    /\ currentTask # NoTask

\* C5: Stop called on a non-stopped daemon eventually returns with state
\* stopped, also when a task's background execution is in flight at the
\* moment Stop is called.
C5_StopReturns == (stopPc = "close") ~> (stopPc = "none" /\ state = StateStopped)

\* C6: once the state is stopped, no public operation and no background
\* task completion moves it to idle or working again.
C6_StoppedTerminal == [][state = StateStopped => state' = StateStopped]_vars

\* C7: once the executor's work of an accepted task has returned, and Stop
\* is not called, the goroutine publishes one notification (topic
\* "notification", source "daemon") and then sets state idle with the task
\* slot empty, whether or not that Publish succeeded.
C7_CompletionResets ==
    /\ [][\A g \in GorIds :
            (gor[g].pc # "none" /\ gor'[g].pc = "none") =>
               /\ gor[g].pc = "lock"
               /\ gor[g].pubs = 1
               /\ state' = StateIdle
               /\ currentTask' = NoTask]_vars
    /\ [](\A id \in DOMAIN subscriptions : \A i \in 1..Len(subscriptions[id].ch) :
            /\ subscriptions[id].ch[i].topic = "notification"
            /\ subscriptions[id].ch[i].source = "daemon")
    /\ \A g \in GorIds :
         (gor[g].pc = "publish") ~> (gor[g].pc = "none" \/ stopPc # "none")

\* A goroutine whose Publish failed stands before its completion step.
C7_Witness ==
    \E g \in GorIds :
      /\ gor[g].pc = "lock"
      /\ gor[g].pubRes = "err"
      /\ stopPc = "none"
      /\ ~bClosed
      /\ state = StateWorking

\* C8: Start on a fresh idle daemon returns success; every added plugin is
\* checked, a plugin whose requirements failed is not started, every other
\* plugin is started, and the active set is exactly the plugins whose
\* CheckRequirements and Start hook both succeeded.
C8_StartupExclusion ==
    [][(state = StateIdle /\ ~started /\ last'.op = "Start" /\ Start) =>
         /\ last'.ret = "ok"
         /\ last'.hooks.checked = plugins
         /\ last'.hooks.startInvoked = plugins \ last'.hooks.reqFailed
         /\ plugins' = plugins \ (last'.hooks.reqFailed \cup last'.hooks.startFailed)]_vars

C8_Witness ==
    /\ last.op = "Start"
    /\ last.ret = "ok"
    /\ last.hooks.reqFailed = {"alt"}
    /\ last.hooks.startInvoked = {"llm"}
    /\ plugins = {"llm"}

\* C9: after AddPlugin, Start, Stop, a further Start returns an error,
\* invokes no plugin hook and leaves the state stopped.
C9_RestartRejected ==
    [][(stopReturned /\ ~setStateUsed /\ last'.op = "Start" /\ Start) =>
         /\ state = StateStopped
         /\ last'.ret = "err_already_started"
         /\ last'.hooks = NoHooks
         /\ startHook' = startHook
         /\ plugins' = plugins
         /\ state' = StateStopped]_vars

C9_Witness ==
    /\ last = Call("Start", "err_already_started")
    /\ stopReturned
    /\ ~setStateUsed
    /\ started
    /\ plugins # {}
    /\ state = StateStopped

\* C10: after one successful Start every later Start call returns an
\* error, so each plugin's Start hook is invoked at most once.
C10_StartOnlyOnce ==
    /\ [][(started /\ last'.op = "Start" /\ Start) => last'.ret = "err_already_started"]_vars
    /\ [](\A p \in Plugins : startHook[p] # "again")

\* C11: Stop on a stopped daemon returns success, invokes no plugin Stop
\* hook and leaves the broker as it is; once a Stop call has returned, every
\* later Stop call of a sequence of Stop calls does the same, and while one
\* Stop call is running no other Stop call gets past the daemon lock, so no
\* Stop hook is invoked a second time.
C11_StopIdempotent ==
    /\ [][(state = StateStopped /\ last'.op = "Stop" /\ StopBegin) =>
            /\ last' = Call("Stop", "ok")
            /\ stopPc' = "none"
            /\ bvars' = bvars
            /\ state' = StateStopped]_vars
    /\ [][(stopReturned /\ ~setStateUsed /\ last'.op = "Stop" /\ StopBegin) =>
            /\ last'.hooks.stopInvoked = {}
            /\ stopPc' = "none"
            /\ bvars' = bvars]_vars
    /\ [][(stopPc # "none" /\ last'.op = "Stop") => ~StopBegin]_vars

C11_Witness ==
    /\ last = Call("Stop", "ok")
    /\ stopReturned
    /\ ~setStateUsed
    /\ started
    /\ plugins # {}
    /\ bClosed
    /\ state = StateStopped

\* C12: a Stop call on a daemon that is not stopped invokes the Stop hook of
\* every plugin of the active set whatever hooks fail, returns success when
\* it returns, and has closed the broker once it is past the Close call.
C12_StopAllPlugins ==
    /\ [][(state # StateStopped /\ last'.op = "Stop" /\ StopBegin) =>
            /\ last'.hooks.stopInvoked = plugins
            /\ last'.hooks.stopFailed \subseteq plugins
            /\ stopPc' = "close"]_vars
    /\ [][StopFinish => (last'.ret = "ok" /\ last'.hooks = last.hooks /\ bClosed')]_vars
    /\ [](stopPc = "wait" => bClosed)
    /\ [](stopReturned => bClosed)

C12_Witness ==
    /\ last.op = "Stop"
    /\ last.ret = "ok"
    /\ last.hooks.stopFailed = {"llm"}
    /\ last.hooks.stopInvoked = {"llm", "alt"}
    /\ plugins = {"llm", "alt"}
    /\ bClosed
    /\ stopReturned

\* C13: ExecuteTask on an idle daemon without an executor returns an error,
\* leaves the state idle and the task slot empty and spawns no goroutine.
C13_NoExecutorRejected ==
    [][(state = StateIdle /\ executor = NoExecutor /\ last'.op = "ExecuteTask"
        /\ ExecuteTask) =>
         /\ last' = Call("ExecuteTask", "err_no_executor")
         /\ state' = StateIdle
         /\ currentTask' = NoTask
         /\ gor' = gor
         /\ \A g \in GorIds : gor[g].pc = "none"]_vars

C13_Witness ==
    /\ last = Call("ExecuteTask", "err_no_executor")
    /\ state = StateIdle
    /\ ~started
    /\ executor = NoExecutor
    /\ currentTask = NoTask

\* C14: AddPlugin of a name already in the plugin set returns an error and
\* leaves the set unchanged; AddPlugin of a plugin disabled in the
\* configuration returns success and leaves the set unchanged; otherwise
\* the plugin is added under its name and success is returned.
C14_AddPluginAdmission ==
    [][\A p \in Plugins :
         (last'.op = "AddPlugin" /\ AddPlugin(p)) =>
            IF p \in plugins
            THEN last'.ret = "err_already_added" /\ plugins' = plugins
            ELSE IF p \in DisabledPlugins
            THEN last'.ret = "ok" /\ plugins' = plugins
            ELSE last'.ret = "ok" /\ plugins' = plugins \cup {p}]_vars

C14_Witness ==
    /\ last = Call("AddPlugin", "err_already_added")
    /\ plugins = {"llm"}

\* C15: an active executor belongs to a plugin of the active plugin set.
C15_ExecutorActive == executor # NoExecutor => executor \in plugins

\* A filter F matches a topic T: F is empty, contains T, or contains "*".
Matches(F, T) ==
    \/ F = << >>
    \/ \E i \in 1..Len(F) : F[i] = T
    \/ \E i \in 1..Len(F) : F[i] = "*"

\* The subscriptions whose filter matches topic T.
Matched(T) == {s \in DOMAIN subscriptions : Matches(subscriptions[s].topics, T)}

\* The step in which the return value of caller p's Publish is determined.
PublishReturns(p) == pub[p].pc # "done" /\ pub'[p].pc = "done"

\* The step in which a Publish call of p on topic t gets past RLock.
PublishEnters(p, t) == pub[p].pc = "idle" /\ pub'[p].pc # "idle" /\ pub'[p].topic = t

\* The step in which a delivery of p's Publish puts the message on s's queue.
Enqueues(p, s) == pub'[p].delivered[s] > pub[p].delivered[s]

\* The subscribers a Publish call r had as targets.
TargetIds(r) == {r.targets[i][1] : i \in 1..Len(r.targets)}

\* The targets of r whose queue never had a free slot during the call.
Stuck(r) == TargetIds(r) \ r.room

\* C16 as stated: when Publish returns success every matching subscription
\* got the message exactly once and no other subscription got it; when it
\* returns an error some matching subscription did not get the message.
C16_PublishDelivery ==
    [][\A p \in PubIds : PublishReturns(p) =>
         /\ pub'[p].ret.kind = "ok" =>
              \A s \in AllSubIds :
                 pub'[p].delivered[s] = IF s \in Matched(pub'[p].topic) THEN 1 ELSE 0
         /\ pub'[p].ret.kind # "ok" =>
              \E s \in Matched(pub'[p].topic) : pub'[p].delivered[s] = 0]_vars

\* C16 amended: the success half as stated, each delivery appending the
\* message once to a buffered queue; an error returned on a broker that is
\* not closed means some matching subscription did not get the message; on
\* a closed broker the error is returned with no delivery.
C16_PublishDeliveryOpen ==
    /\ [][\A p \in PubIds : PublishReturns(p) =>
            /\ pub'[p].ret.kind = "ok" =>
                 \A s \in AllSubIds :
                    pub'[p].delivered[s] = IF s \in Matched(pub'[p].topic) THEN 1 ELSE 0
            /\ (pub'[p].ret.kind # "ok" /\ ~bClosed) =>
                 \E s \in Matched(pub'[p].topic) : pub'[p].delivered[s] = 0
            /\ bClosed =>
                 /\ pub'[p].ret.kind = "closed"
                 /\ \A s \in AllSubIds : pub'[p].delivered[s] = 0
                 /\ subscriptions' = subscriptions]_vars
    /\ [][\A p \in PubIds, s \in BrokerSubIds :
            (Enqueues(p, s) /\ subscriptions[s].bufSize > 0) =>
               subscriptions'[s].ch = Append(subscriptions[s].ch, Message(p, pub[p].topic))]_vars

C16_Witness ==
    /\ pub["p1"].pc = "done"
    /\ pub["p1"].ret.kind = "ok"
    /\ pub["p1"].topic = "chat"
    /\ DOMAIN subscriptions = {"s1", "s2"}
    /\ subscriptions["s1"].topics = <<"chat", "chat">>
    /\ subscriptions["s2"].topics = <<"alert">>
    /\ pub["p1"].delivered["s1"] = 1
    /\ pub["p1"].delivered["s2"] = 0

C18_NoMatchSucceeds ==
    [][\A p \in PubIds, t \in Topics :
         (~bClosed /\ Matched(t) = {} /\ PublishEnters(p, t)) =>
            /\ pub'[p].pc = "done"
            /\ pub'[p].ret.kind = "ok"
            /\ pub'[p].targets = << >>
            /\ \A s \in AllSubIds : pub'[p].delivered[s] = 0
            /\ subscriptions' = subscriptions]_vars

C18_Witness ==
    /\ pub["p1"].pc = "done"
    /\ pub["p1"].ret.kind = "ok"
    /\ pub["p1"].topic = "chat"
    /\ pub["p1"].targets = << >>
    /\ ~bClosed
    /\ DOMAIN subscriptions = {"s1"}
    /\ subscriptions["s1"].topics = <<"alert">>

\* C19: wantsTopic holds exactly for an empty filter, a filter containing
\* the topic and a filter containing "*"; the targets of a Publish are
\* exactly the subscriptions whose filter matches in this sense, and a
\* message is only ever enqueued for, and found on, a queue whose filter
\* matches its topic.
C19_TopicMatching ==
    /\ [](\A F \in BrokerFilters \cup TopicFilters, T \in Topics :
            wantsTopic(F, T) <=> Matches(F, T))
    /\ [][\A p \in PubIds, t \in Topics :
            (~bClosed /\ PublishEnters(p, t)) => TargetIds(pub'[p]) = Matched(t)]_vars
    /\ [][\A p \in PubIds, s \in BrokerSubIds :
            Enqueues(p, s) => Matches(subscriptions[s].topics, pub[p].topic)]_vars
    /\ [](\A s \in DOMAIN subscriptions :
            \A i \in 1..Len(subscriptions[s].ch) :
               Matches(subscriptions[s].topics, subscriptions[s].ch[i].topic))

C19_Witness ==
    /\ pub["p1"].pc = "done"
    /\ pub["p1"].ret.kind = "ok"
    /\ pub["p1"].topic = "alert"
    /\ DOMAIN subscriptions = {"s1", "s2"}
    /\ subscriptions["s1"].topics = <<"chat", "*">>
    /\ subscriptions["s1"].ch = <<Message("p1", "alert")>>
    /\ subscriptions["s2"].topics = <<"chat", "chat">>
    /\ pub["p1"].delivered["s2"] = 0

\* C20: a Subscribe for an id that has a subscription closes the channel
\* of that subscription and binds the id to a new, empty one, the other
\* subscriptions staying as they are; a closed channel is never the channel
\* of a subscription, every message is enqueued on the current channel of
\* its subscriber, and no send on a closed channel ever happens.
C20_Resubscribe ==
    /\ [][\A id \in BrokerSubIds :
            (id \in DOMAIN subscriptions /\ chanGen'[id] # chanGen[id]) =>
               /\ <<id, chanGen[id], "Subscribe">> \in closedCh'
               /\ DOMAIN subscriptions' = DOMAIN subscriptions
               /\ subscriptions'[id].ch = << >>
               /\ \A c \in closedCh' : ~(c[1] = id /\ c[2] = chanGen'[id])
               /\ \A s \in DOMAIN subscriptions \ {id} :
                     subscriptions'[s] = subscriptions[s]]_vars
    /\ [][\A p \in PubIds, s \in BrokerSubIds :
            Enqueues(p, s) =>
               \E i \in pub[p].pending \ pub'[p].pending :
                  /\ pub[p].targets[i] = <<s, chanGen[s]>>
                  /\ ~IsClosed(pub[p].targets[i])]_vars
    /\ [](\A s \in DOMAIN subscriptions : ~IsClosed(<<s, chanGen[s]>>))
    /\ [](~sendOnClosed)

C20_Witness ==
    /\ <<"s1", 1, "Subscribe">> \in closedCh
    /\ chanGen["s1"] = 2
    /\ "s1" \in DOMAIN subscriptions
    /\ subscriptions["s1"].ch = <<Message("p1", "chat")>>
    /\ pub["p1"].pc = "done"
    /\ pub["p1"].ret.kind = "ok"
    /\ pub["p1"].targets = << <<"s1", 2>> >>
    /\ pub["p1"].delivered["s1"] = 1

\* C21: Subscribe on a closed broker returns a closed handle and registers
\* nothing; once the broker is closed its subscription table is empty and
\* stays empty, and the closed flag never goes back to false.
C21_SubscribeClosed ==
    /\ [][\A id \in BrokerSubIds, b \in BufSizes, f \in BrokerFilters :
            (bClosed /\ bLast'.op = "Subscribe" /\ Subscribe(id, b, f)) =>
               /\ bLast'.ret = "closed_handle"
               /\ subscriptions' = subscriptions
               /\ chanGen' = chanGen
               /\ closedCh' = closedCh]_vars
    /\ [](bClosed => DOMAIN subscriptions = {})
    /\ [][bClosed => bClosed']_vars

C21_Witness ==
    /\ bClosed
    /\ bLast = BrokerCall("Subscribe", "s1", "closed_handle")
    /\ DOMAIN subscriptions = {}
    /\ <<"s1", 1, "Close">> \in closedCh

\* C22: Unsubscribe(id) of a subscribed id closes that subscription's
\* channel and removes it, every other subscription keeping its filter,
\* queue and open channel; Unsubscribe of an unknown id changes nothing.
C22_UnsubscribeFrame ==
    [][\A id \in BrokerSubIds :
         (bLast'.op = "Unsubscribe" /\ Unsubscribe(id)) =>
            IF id \in DOMAIN subscriptions
            THEN /\ bLast'.ret = "removed"
                 /\ DOMAIN subscriptions' = DOMAIN subscriptions \ {id}
                 /\ closedCh' = closedCh \cup {<<id, chanGen[id], "Unsubscribe">>}
                 /\ \A s \in DOMAIN subscriptions \ {id} :
                       /\ subscriptions'[s] = subscriptions[s]
                       /\ \A c \in closedCh' : ~(c[1] = s /\ c[2] = chanGen[s])
                 /\ chanGen' = chanGen
                 /\ bClosed' = bClosed
            ELSE /\ bLast'.ret = "unknown"
                 /\ subscriptions' = subscriptions
                 /\ closedCh' = closedCh
                 /\ chanGen' = chanGen
                 /\ bClosed' = bClosed]_vars

C22_Witness ==
    /\ bLast = BrokerCall("Unsubscribe", "s1", "unknown")
    /\ <<"s1", 1, "Unsubscribe">> \in closedCh
    /\ DOMAIN subscriptions = {"s2"}
    /\ subscriptions["s2"].ch # << >>
    /\ ~IsClosed(<<"s2", chanGen["s2"]>>)

\* C23: Close on an open broker sets the closed flag, closes the channel of
\* every subscription and empties the table; Close on a closed broker
\* changes nothing of the broker.
C23_CloseIdempotent ==
    [][(bLast'.op = "Close" /\ Close) =>
         IF bClosed
         THEN /\ bLast'.ret = "noop"
              /\ bClosed'
              /\ subscriptions' = subscriptions
              /\ closedCh' = closedCh
              /\ chanGen' = chanGen
         ELSE /\ bLast'.ret = "closed"
              /\ bClosed'
              /\ DOMAIN subscriptions' = {}
              /\ \A s \in DOMAIN subscriptions : <<s, chanGen[s], "Close">> \in closedCh'
              /\ chanGen' = chanGen]_vars

C23_Witness ==
    /\ bLast = BrokerCall("Close", "none", "noop")
    /\ bClosed
    /\ DOMAIN subscriptions = {}
    /\ <<"s1", 1, "Close">> \in closedCh
    /\ <<"s2", 1, "Close">> \in closedCh

\* C24: a Publish call that has started its fan-out returns; when its
\* return value is determined no delivery attempt is pending; it returns
\* also when a full queue is never read.
C24_PublishTerminates ==
    /\ \A p \in PubIds : (pub[p].pc = "fanout") ~> (pub[p].pc = "done")
    /\ \A p \in PubIds : (pub[p].pc = "done") ~> (pub[p].pc = "idle")
    /\ [](\A p \in PubIds : pub[p].pc = "done" => pub[p].pending = {})
    /\ [](\A p \in PubIds : pub[p].pc = "fanout" => pub[p].pending # {})

C24_Witness ==
    /\ pub["p1"].pc = "done"
    /\ pub["p1"].ret = [kind |-> "slow", sub |-> "s1"]
    /\ ~pub["p1"].ctxDone
    /\ subscriptions["s1"].bufSize = 1
    /\ Len(subscriptions["s1"].ch) = 1
    /\ pub["p1"].delivered["s1"] = 0

\* The line with the command marker put in front.
Marked(input) == <<"/">> \o input

\* The line has a command name, and the name does not begin with the
\* command marker.
PlainName(input) ==
    /\ Fields(input) # << >>
    /\ Head(Fields(input)[1]) # "/"

\* C25 as stated: a line that has a command name and the same line behind
\* the command marker are routed to the same outcome, and the arguments
\* are the blank-separated tokens after the name.
C25_MarkerOptional ==
    (cmdLast.op = "Route" /\ Fields(cmdLast.input) # << >>) =>
       /\ RouteResult(Marked(cmdLast.input), cmdLast.mode) = cmdLast.out
       /\ cmdLast.out.invoked => cmdLast.out.args = Tail(Fields(cmdLast.input))

\* C25 amended: the same for a line whose command name does not itself
\* begin with the command marker.
C25_MarkerOptionalPlain ==
    (cmdLast.op = "Route" /\ PlainName(cmdLast.input)) =>
       /\ RouteResult(Marked(cmdLast.input), cmdLast.mode) = cmdLast.out
       /\ cmdLast.out.name = Fields(cmdLast.input)[1]
       /\ cmdLast.out.invoked => cmdLast.out.args = Tail(Fields(cmdLast.input))

C25_Witness ==
    /\ cmdLast.op = "Route"
    /\ cmdLast.input = <<"status", " ", "x">>
    /\ cmdLast.out = Outcome("none", <<"status">>, << <<"x">> >>, NoMode, TRUE)
    /\ RouteResult(<<"/", "status", " ", "x">>, cmdLast.mode) = cmdLast.out

\* C26: Route returns an error and calls no handler for an empty line, a
\* line of blanks, a line that is only the command marker, and a line whose
\* command name is not registered, the error then being "unknown command"
\* with that name.
C26_RouteErrors ==
    cmdLast.op = "Route" =>
       LET in == cmdLast.input
           out == cmdLast.out
       IN /\ (in = << >> \/ \A i \in 1..Len(in) : in[i] = " ") =>
               (out.err = "empty command" /\ ~out.invoked)
          /\ (in = <<"/">>) => (out.err = "invalid command format" /\ ~out.invoked)
          /\ (Fields(TrimPrefix(TrimSpace(in))) # << >>
              /\ Fields(TrimPrefix(TrimSpace(in)))[1] \notin DOMAIN commands) =>
               /\ out.err = "unknown command"
               /\ out.name = Fields(TrimPrefix(TrimSpace(in)))[1]
               /\ ~out.invoked

C26_Witness ==
    /\ cmdLast.op = "Route"
    /\ cmdLast.input = <<"x">>
    /\ <<"x">> \notin DOMAIN commands
    /\ cmdLast.out = Outcome("unknown command", <<"x">>, << >>, NoMode, FALSE)

\* The modes of a command, as a set.
ModeSet(name) == {commands[name].modes[i] : i \in 1..Len(commands[name].modes)}

\* C27: Execute of a registered command returns the not-available error
\* without calling the handler exactly when the context carries a mode, the
\* command's modes are not empty and the mode is not among them; otherwise
\* the handler is called with the given args and its result returned.
C27_ModeFilter ==
    (cmdLast.op = "Execute" /\ cmdLast.name \in DOMAIN commands) =>
       IF cmdLast.mode # NoMode /\ ModeSet(cmdLast.name) # {}
          /\ cmdLast.mode \notin ModeSet(cmdLast.name)
       THEN cmdLast.out = Outcome("not available in mode", cmdLast.name, << >>,
                                  cmdLast.mode, FALSE)
       ELSE cmdLast.out = Outcome("none", cmdLast.name, cmdLast.args, NoMode, TRUE)

C27_Witness ==
    /\ cmdLast.op = "Execute"
    /\ cmdLast.name = <<"x">>
    /\ <<"x">> \in DOMAIN commands
    /\ commands[<<"x">>].modes = <<ModeInteractive>>
    /\ cmdLast.mode = ModeDaemon
    /\ cmdLast.out.err = "not available in mode"
    /\ ~cmdLast.out.invoked

\* The commands ListCommands(mode) has to return.
Listable(mode) ==
    {n \in DOMAIN commands :
        ~commands[n].hidden /\ (ModeSet(n) = {} \/ mode \in ModeSet(n))}

\* C28: ListCommands(mode) returns exactly the commands that are not
\* hidden and whose modes are empty or contain mode, each once, in
\* ascending order of name.
C28_ListCommands ==
    cmdLast.op = "ListCommands" =>
       LET out == cmdLast.out IN
       /\ {out[i] : i \in 1..Len(out)} = Listable(cmdLast.mode)
       /\ \A i, j \in 1..Len(out) : i < j => Rank(out[i]) < Rank(out[j])

C28_Witness ==
    /\ cmdLast.op = "ListCommands"
    /\ cmdLast.mode = ModeDaemon
    /\ cmdLast.out = << <<"plugins">>, <<"x">> >>
    /\ DOMAIN commands = CmdNames
    /\ commands[<<"status">>].hidden

\* C29: registering a command or a plugin under a name already present
\* panics and leaves the registry as it is, the entry registered first
\* staying in place; under a new name the entry is added and the others
\* stay.
C29_DuplicateRegister ==
    /\ [][\A name \in CmdNames, modes \in ModeLists, hidden \in BOOLEAN :
            (cmdLast'.op = "Register" /\ Register(name, modes, hidden)) =>
               IF name \in DOMAIN commands
               THEN cmdLast'.out = "panic" /\ commands' = commands
               ELSE /\ cmdLast'.out = "ok"
                    /\ DOMAIN commands' = DOMAIN commands \cup {name}
                    /\ commands'[name] = [modes |-> modes, hidden |-> hidden]
                    /\ \A n \in DOMAIN commands : commands'[n] = commands[n]]_vars
    /\ [][\A p \in PluginInstances :
            (cmdLast'.op = "plugin.Register" /\ RegisterPlugin(p)) =>
               IF p[1] \in DOMAIN pluginRegistry
               THEN cmdLast'.out = "panic" /\ pluginRegistry' = pluginRegistry
               ELSE /\ cmdLast'.out = "ok"
                    /\ DOMAIN pluginRegistry' = DOMAIN pluginRegistry \cup {p[1]}
                    /\ pluginRegistry'[p[1]] = p
                    /\ \A n \in DOMAIN pluginRegistry :
                          pluginRegistry'[n] = pluginRegistry[n]]_vars
    /\ [](\A n \in DOMAIN pluginRegistry : pluginRegistry[n][1] = n)

C29_Witness ==
    /\ cmdLast = [op |-> "plugin.Register", name |-> "llm", out |-> "panic"]
    /\ "llm" \in DOMAIN pluginRegistry
    /\ pluginRegistry["llm"] = <<"llm", 1>>

\* One RequirementChecker: requirements are added, then checked.
NextChecker ==
    \/ \E name \in ReqNames, required \in BOOLEAN : Add(name, required)
    \/ CheckBegin
    \/ CheckStep
    \/ CheckEnd
    \/ CheckReturn

CheckerSpec == Init /\ [][NextChecker]_vars

\* The elements of a set of indexes in ascending order.
Ascending(S) ==
    CHOOSE s \in [1..Cardinality(S) -> S] :
        \A a, b \in 1..Cardinality(S) : a < b => s[a] < s[b]

\* The required checks that returned an error in the call of rc.Check.
FailedRequired == {i \in chk.failed : requirements[i].required}

\* C30: when rc.Check returns, every requirement has been checked once,
\* in the order of registration, also after a failed required check; the
\* call returns an error exactly when a required check failed, the error
\* lists the failed required checks in the order of registration, and a
\* failed optional check alone gives nil.
C30_CheckAll ==
    chk.pc = "returned" =>
       /\ chk.ran = [i \in 1..Len(requirements) |-> i]
       /\ (chk.ret.err = "nil") <=> (FailedRequired = {})
       /\ chk.ret.err \in {"nil", "requirement check(s) failed"}
       /\ chk.ret.list = [k \in 1..Cardinality(FailedRequired) |->
                             Msg(requirements[Ascending(FailedRequired)[k]])]

C30_Witness ==
    /\ chk.pc = "returned"
    /\ Len(requirements) = 3
    /\ requirements[1].required /\ ~requirements[2].required
    /\ requirements[3].required
    /\ chk.failed = {1, 2, 3}
    /\ chk.ran = <<1, 2, 3>>
    /\ chk.ret.err = "requirement check(s) failed"
    /\ Len(chk.ret.list) = 2

\* Two callers publish at the same time while a subscriber comes and goes,
\* the timeout is set and the broker is closed.
NextLock ==
    \/ \E id \in SubIds, b \in BufSizes, f \in BrokerFilters : Subscribe(id, b, f)
    \/ \E id \in SubIds : Unsubscribe(id)
    \/ \E id \in SubIds : Receive(id)
    \/ Close
    \/ \E t \in Timeouts : SetPublishTimeout(t)
    \/ \E p \in LockPubIds, t \in Topics : PublishBegin(p, t)
    \/ \E p \in LockPubIds : PubAccept(p, 1)
    \/ \E p \in LockPubIds : PubTimeout(p, 1)
    \/ \E p \in LockPubIds : PubCtxDone(p, 1)
    \/ \E p \in LockPubIds : PubCtxCancel(p)
    \/ \E p \in LockPubIds : PubReturn(p)

LockSpec == Init /\ [][NextLock]_vars

\* The subscription table: per id the subscription object, which is its
\* filter, its capacity and its channel.
Table == [s \in DOMAIN subscriptions |->
            <<subscriptions[s].topics, subscriptions[s].bufSize, chanGen[s]>>]

\* The Publish calls that have computed their targets and not returned.
FanOuts == pubReaders \cup brokerReaders

\* C31: while a Publish call is between the computation of its targets and
\* its return, no step changes the subscription table, closes a channel,
\* closes the broker or changes the delivery timeout; several Publish calls
\* can be in that stretch together.
C31_FanOutExclusion ==
    [][FanOuts # {} =>
         /\ Table' = Table
         /\ closedCh' = closedCh
         /\ bClosed' = bClosed
         /\ publishTimeout' = publishTimeout]_vars

C31_Witness ==
    /\ \A p \in LockPubIds : pub[p].pc = "fanout"
    /\ publishTimeout # DefaultPublishTimeout
    /\ closedCh # {}
    /\ ~bClosed

\* C32: while the executor's work of an accepted task runs, d.mu is not
\* held, so that GetState, GetStatus, Reset and ExecuteTask can take it and
\* return without waiting for the task.
C32_LockFreeWhileExecuting == InFlight # {} => muFree

\* Goroutine g runs its completion step in this step.
Completes(g) == gor[g].pc = "lock" /\ gor'[g].pc = "none"

\* C33: the completion step of a task's goroutine leaves the state working
\* and the task slot as it is when the slot holds another, newer task.
C33_CompletionOwnTask ==
    [][\A g \in GorIds :
          (Completes(g) /\ currentTask # NoTask /\ currentTask # g) =>
             /\ state' = state
             /\ currentTask' = currentTask]_vars

\* The daemon driven by AddPlugin, Start, ExecuteTask, Reset and Stop, with
\* the background goroutines of its tasks.
NextLife ==
    \/ \E p \in Plugins : AddPlugin(p)
    \/ Start
    \/ StopBegin
    \/ StopClose
    \/ StopFinish
    \/ Reset
    \/ ExecuteTask
    \/ \E g \in GorIds : GoExecReturn(g)
    \/ \E g \in GorIds : GoPublishBegin(g)
    \/ \E g \in GorIds : GoComplete(g)

LifeSpec == Init /\ [][NextLife]_vars

\* C34: the task slot holds a task exactly when the state is working.
C34_SlotIffWorking == (currentTask # NoTask) <=> (state = StateWorking)

C34_Witness ==
    /\ state = StateWorking
    /\ currentTask = 2
    /\ gor[1].pc = "lock"
    /\ last = Call("ExecuteTask", "ok")

\* C35: the channel of every subscription in the table is open, so that
\* Subscribe, Unsubscribe and Close, which close channels of the table
\* only, never close a channel a second time; and no delivery of Publish
\* sends on a closed channel.
C35_CloseOnceNoSendAfter ==
    /\ [](\A s \in DOMAIN subscriptions : ~IsClosed(<<s, chanGen[s]>>))
    /\ [][\A c \in closedCh' \ closedCh : ~IsClosed(<<c[1], c[2]>>)]_vars
    /\ [](~sendOnClosed)

C35_Witness ==
    /\ \E c1, c2 \in closedCh :
          /\ c1[1] = c2[1]
          /\ c1[3] = "Subscribe"
          /\ c2[3] = "Close"
    /\ \E c \in closedCh : c[3] = "Unsubscribe"
    /\ pub["p1"].ret.kind = "closed"
    /\ ~sendOnClosed

\* One caller publishes numbered messages one call after the other to
\* subscribers that come, are replaced and read their queues.
NextFifo ==
    \/ \E id \in BrokerSubIds, b \in FifoBufSizes, f \in FifoFilters : Subscribe(id, b, f)
    \/ \E id \in BrokerSubIds : Receive(id)
    \/ \E t \in Topics : PublishNext("p1", t)
    \/ \E i \in 1..Cardinality(BrokerSubIds) : PubAccept("p1", i)
    \/ \E i \in 1..Cardinality(BrokerSubIds) : PubTimeout("p1", i)
    \/ \E i \in 1..Cardinality(BrokerSubIds) : PubCtxDone("p1", i)
    \/ PubReturn("p1")

FifoSpec == Init /\ [][NextFifo]_vars

\* The queue of subscriber s.
Queue(s) == subscriptions[s].ch

\* C36: a receive handle yields the messages of one caller in the order of
\* the caller's Publish calls; the messages resting on a queue are in that
\* order, each once, and a step only takes the first of them or puts one
\* behind them.
C36_Fifo ==
    /\ [][\A s \in BrokerSubIds :
            (yielded'[s] # yielded[s] /\ chanGen'[s] = chanGen[s]) =>
               yielded'[s] > yielded[s]]_vars
    /\ [](\A s \in DOMAIN subscriptions : \A i, j \in 1..Len(Queue(s)) :
            i < j => Queue(s)[i].payload < Queue(s)[j].payload)
    /\ [][\A s \in DOMAIN subscriptions :
            chanGen'[s] = chanGen[s] =>
               \/ Queue(s)' = Queue(s)
               \/ Queue(s) # << >> /\ Queue(s)' = Tail(Queue(s))
               \/ /\ Len(Queue(s)') = Len(Queue(s)) + 1
                  /\ SubSeq(Queue(s)', 1, Len(Queue(s))) = Queue(s)]_vars

C36_Witness ==
    /\ "s1" \in DOMAIN subscriptions
    /\ subscriptions["s1"].bufSize = 2
    /\ chanGen["s1"] = 1
    /\ yielded["s1"] = 1
    /\ Len(Queue("s1")) = 1
    /\ Queue("s1")[1].payload = 2
    /\ pub["p1"].pc = "idle"

\* Task execution on the started daemon next to a caller of Publish; the
\* broker is closed by Stop or by a call of Close.
NextClosed ==
    \/ ExecuteTask
    \/ StopBegin
    \/ StopClose
    \/ StopFinish
    \/ Close
    \/ \E id \in SubIds, b \in BufSizes, f \in TopicFilters : Subscribe(id, b, f)
    \/ \E id \in SubIds : Receive(id)
    \/ \E g \in GorIds : CtxCancel(g)
    \/ \E g \in GorIds : GoExecReturn(g)
    \/ \E g \in GorIds : GoPublishBegin(g)
    \/ \E g \in GorIds, s \in SubIds : GoDeliverAccept(g, s)
    \/ \E g \in GorIds, s \in SubIds : GoDeliverTimeout(g, s)
    \/ \E g \in GorIds, s \in SubIds : GoDeliverCtxDone(g, s)
    \/ \E g \in GorIds : GoComplete(g)
    \/ \E p \in PubIds, t \in Topics : PublishBegin(p, t)
    \/ \E p \in PubIds : PubCtxCancel(p)
    \/ \E p \in PubIds : PubAccept(p, 1)
    \/ \E p \in PubIds : PubTimeout(p, 1)
    \/ \E p \in PubIds : PubCtxDone(p, 1)
    \/ \E p \in PubIds : PubReturn(p)

ClosedSpec == InitStarted /\ [][NextClosed]_vars

\* The step in which the Publish call of goroutine g gets past RLock.
GoPublishEnters(g) == gor[g].pc = "publish" /\ gor'[g].pc # "publish"

\* C37: on a closed broker, closed by Close or by Stop, a Publish call on
\* whatever topic returns the closed error and changes no queue, be it the
\* call of an outside caller or of a task goroutine of the daemon; a closed
\* broker has no subscription left to deliver to.
C37_ClosedPublish ==
    /\ [][\A p \in PubIds, t \in Topics :
            (bClosed /\ PublishEnters(p, t)) =>
               /\ pub'[p].pc = "done"
               /\ pub'[p].ret.kind = "closed"
               /\ \A s \in AllSubIds : pub'[p].delivered[s] = 0
               /\ subscriptions' = subscriptions]_vars
    /\ [][\A g \in GorIds :
            (bClosed /\ GoPublishEnters(g)) =>
               /\ gor'[g].pc = "lock"
               /\ gor'[g].pubRes = "err"
               /\ subscriptions' = subscriptions]_vars
    /\ [](bClosed => DOMAIN subscriptions = {})

C37_Witness ==
    /\ bClosed
    /\ stopPc = "wait"
    /\ \E g \in GorIds : gor[g].pc = "lock" /\ gor[g].pubRes = "err"
    /\ pub["p1"].pc = "done"
    /\ pub["p1"].topic = "alert"
    /\ pub["p1"].ret.kind = "closed"
    /\ closedCh # {}

\* The step in which a Stop call on a daemon that is not stopped runs the
\* Stop hooks.
StopsPlugins == stopPc = "none" /\ stopPc' = "close"

\* C38: Stop invokes the Stop hook only of plugins whose Start hook has
\* been invoked before, and after a Start call every plugin of the active
\* set has had its Start hook invoked.
C38_StopOnlyStarted ==
    /\ [][StopsPlugins =>
            \A p \in last'.hooks.stopInvoked : startHook[p] # "never"]_vars
    /\ [](started => \A p \in plugins : startHook[p] # "never")

\* Task execution on the started daemon in a run without Reset.
NextCompletion ==
    \/ ExecuteTask
    \/ StopBegin
    \/ StopClose
    \/ StopFinish
    \/ \E id \in SubIds, b \in BufSizes, f \in TopicFilters : Subscribe(id, b, f)
    \/ \E id \in SubIds : Unsubscribe(id)
    \/ \E id \in SubIds : Receive(id)
    \/ \E g \in GorIds : CtxCancel(g)
    \/ \E g \in GorIds : GoExecReturn(g)
    \/ \E g \in GorIds : GoPublishBegin(g)
    \/ \E g \in GorIds, s \in SubIds : GoDeliverAccept(g, s)
    \/ \E g \in GorIds, s \in SubIds : GoDeliverTimeout(g, s)
    \/ \E g \in GorIds, s \in SubIds : GoDeliverCtxDone(g, s)
    \/ \E g \in GorIds : GoComplete(g)

CompletionSpec == InitStarted /\ [][NextCompletion]_vars

\* The step in which subscriber s takes a notification from its receive
\* handle: from the queue, or from the sender when the channel has no
\* buffer.
TakesNotification(s) ==
    \/ Receive(s)
    \/ \E g \in GorIds : subscriptions[s].bufSize = 0 /\ GoDeliverAccept(g, s)

\* The state leaves working only in the completion step of a goroutine
\* whose Publish call has returned.
LeavesWorkingAfterPublish ==
    [][(state = StateWorking /\ state' # StateWorking) =>
          \E g \in GorIds : Completes(g) /\ gor[g].pubs = 1]_vars

NextFan ==
    \/ \E id \in BrokerSubIds : Receive(id)
    \/ \E p \in PubIds, t \in Topics : PublishFanOut(p, t)
    \/ \E p \in PubIds : PubCtxCancel(p)
    \/ \E p \in PubIds, i \in 1..Cardinality(BrokerSubIds) : PubAccept(p, i)
    \/ \E p \in PubIds, i \in 1..Cardinality(BrokerSubIds) : PubTimeout(p, i)
    \/ \E p \in PubIds, i \in 1..Cardinality(BrokerSubIds) : PubCtxDone(p, i)
    \/ \E p \in PubIds : PubReturn(p)

FanSpec == InitSubscribed /\ [][NextFan]_vars

\* C40: when a Publish whose caller ctx is not cancelled returns the
\* slow-consumer error of one target, every target whose queue had a free
\* slot when the fan-out began has got the message.
C40_FanOutIndependence ==
    [][\A p \in PubIds :
         (PublishReturns(p) /\ ~pub'[p].ctxDone /\ pub'[p].ret.kind = "slow") =>
            \A s \in roomAtStart[p] : pub'[p].delivered[s] = 1]_vars

====
